---------------------------- MODULE Spec2Model ----------------------------
(***************************************************************************)
(* Model of the KitmeK lesson-generation backend: the lesson validation    *)
(* pipeline (src/services/validator.py) and the knowledge-base loader      *)
(* (src/services/kb_loader.py).                                            *)
(*                                                                         *)
(* Python values are modelled as a tagged value tree.  A string is a       *)
(* sequence of whitespace-separated tokens; a token records its leading    *)
(* punctuation, its alphanumeric core (in lower case), the case of the     *)
(* core and its trailing punctuation, so that lower(), upper(), strip(),   *)
(* split() and the regular expressions of the source act on it the way     *)
(* they act on the text.                                                   *)
(***************************************************************************)
EXTENDS Integers, Sequences, FiniteSets, TLC

VARIABLES
    \* ---- validator (validator.py) ----
    input,      \* the arguments of validate(): lesson_data, grade, exclusions, ...
    report,     \* the ValidationReport being built / returned
    outcome,    \* how the last validator operation ended: "none", "returned", "raised"
    lastOp,     \* the last validator operation applied
    budget,     \* add_check calls the caller may still make (bounds the run)
    \* ---- knowledge-base loader (kb_loader.py) ----
    store,      \* the documents under kb_path: name -> absent / unreadable / file
    cache,      \* KBLoader._cache: NoCache, or the KBData of the last load
    gen,        \* the number of KBData snapshots built so far
    result,     \* what the last loader call handed to its caller
    changes,    \* changes of the store still to come (bounds the run)
    mutations,  \* mutations of returned values made so far (bounds the run)
    pc,         \* the position of the thread inside reload()
    rd,         \* the position of the thread inside get_kb_version()
    \* ---- orchestrator (orchestrator.py) ----
    api_key,    \* LessonGenerationOrchestrator._api_key is set
    attempt,    \* the loop variable of _call_claude_with_retry
    last_exc,   \* last_exc of _call_claude_with_retry
    io,         \* the _call_claude calls and the sleeps made so far, in order
    opc,        \* the position inside _call_claude_with_retry
    generated,  \* how _call_claude_with_retry ended
    \* ---- lesson API (api/lessons.py, database.py) ----
    apc,        \* the position of the generate_lesson request being served
    request_id, \* the id of the GenerationRequest created last (ids are 1, 2, ...)
    lesson_dict,\* lesson_data of the request being served
    session,    \* the rows the request's session has flushed and not committed
    db,         \* the committed rows of the database
    response,   \* the response made last
    delivered   \* the responses of generate the client has received, by request id

vvars == <<input, report, outcome, lastOp, budget>>
kvars == <<store, cache, gen, result, changes, mutations, pc, rd>>
ovars == <<api_key, attempt, last_exc, io, opc, generated>>
avars == <<apc, request_id, lesson_dict, session, db, response, delivered>>
svars == <<ovars, avars>>
vars == <<vvars, kvars, svars>>

-----------------------------------------------------------------------------
(* Tokens and strings *)

Tok(pre, core, cap, post) == [pre |-> pre, core |-> core, cap |-> cap, post |-> post]

\* a lower-case word, a Capitalised word, an UPPER-case word
W(c) == Tok("", c, "lower", "")
Cap(c) == Tok("", c, "title", "")
Up(c) == Tok("", c, "upper", "")
\* a lower-case word followed by punctuation p ("wet.")
WP(c, p) == Tok("", c, "lower", p)
\* a lone punctuation token (".", "/")
Punct(p) == Tok("", "", "lower", p)
\* a run of whitespace at the edge of a string
Pad == Tok(" ", "", "lower", "")

\* the three pacing markers: "[Beat]", "[Pause]", "[Emphasis: word]"
BeatTok == Tok("[", "beat", "title", "]")
PauseTok == Tok("[", "pause", "title", "]")
EmphOpen == Tok("[", "emphasis", "title", ":")
EmphClose(c) == Tok("", c, "lower", "]")

\* cores without cased characters: lower() and upper() leave them alone
Caseless(c) == c \in {"", "7", "99"}

\* str.lower() / str.upper() on one token, and on a string
LowerTok(tk) == IF Caseless(tk.core) THEN tk ELSE [tk EXCEPT !.cap = "lower"]
UpperTok(tk) == IF Caseless(tk.core) THEN tk ELSE [tk EXCEPT !.cap = "upper"]
Lower(s) == [i \in 1..Len(s) |-> LowerTok(s[i])]
Upper(s) == [i \in 1..Len(s) |-> UpperTok(s[i])]

RECURSIVE LStrip(_)
LStrip(s) == IF s # <<>> /\ Head(s) = Pad THEN LStrip(Tail(s)) ELSE s

RECURSIVE RStrip(_)
RStrip(s) == IF s # <<>> /\ s[Len(s)] = Pad THEN RStrip(SubSeq(s, 1, Len(s) - 1)) ELSE s

\* str.strip()
Strip(s) == RStrip(LStrip(s))

\* str.split(): the whitespace-separated tokens
Split(s) == SelectSeq(s, LAMBDA tk : tk # Pad)

RECURSIVE ConcatRange(_, _, _)
ConcatRange(ss, lo, hi) ==
    IF lo > hi THEN <<>>
    ELSE IF lo = hi THEN ss[lo]
    ELSE LET mid == (lo + hi) \div 2
         IN ConcatRange(ss, lo, mid) \o ConcatRange(ss, mid + 1, hi)

\* the concatenation of a sequence of sequences
Concat(ss) == ConcatRange(ss, 1, Len(ss))

\* the indices 1..n in order
Indices(n) == [i \in 1..n |-> i]

\* the elements of s at the indices kept, in that order
SelectIndices(s, kept) == [k \in 1..Len(kept) |-> s[kept[k]]]

-----------------------------------------------------------------------------
(* The value tree: str, dict, list, None, int *)

Str(s) == [t |-> "str", s |-> s, kids |-> <<>>]
\* a dict keeps its insertion order: kids is a sequence of [k, v]
Dict(kids) == [t |-> "dict", s |-> <<>>, kids |-> kids]
KV(k, v) == [k |-> k, v |-> v]
List(items) == [t |-> "list", s |-> <<>>, kids |-> [i \in 1..Len(items) |-> KV("", items[i])]]
None == [t |-> "none", s |-> <<>>, kids |-> <<>>]
IntVal(c) == [t |-> "int", s |-> <<W(c)>>, kids |-> <<>>]

EmptyStr == Str(<<>>)
EmptyList == List(<<>>)
EmptyDict == Dict(<<>>)

\* bool(x)
Truthy(n) ==
    CASE n.t = "str" -> n.s # <<>>
      [] n.t \in {"dict", "list"} -> n.kids # <<>>
      [] n.t = "int" -> n.s # <<W("0")>>
      [] OTHER -> FALSE

HasKey(d, k) == \E i \in 1..Len(d.kids) : d.kids[i].k = k

\* dict.get(k, default) on a dict
Get(d, k, default) ==
    IF HasKey(d, k)
    THEN d.kids[CHOOSE i \in 1..Len(d.kids) : d.kids[i].k = k].v
    ELSE default

\* the items of a list
Items(n) == [i \in 1..Len(n.kids) |-> n.kids[i].v]


-----------------------------------------------------------------------------
(* Helper utilities (validator.py, "Helper utilities") *)

RECURSIVE ExtractTexts(_)
\* _recurse: the string leaves of a value, in traversal order
ExtractTexts(n) ==
    CASE n.t = "str" -> <<n.s>>
      [] n.t \in {"dict", "list"} ->
            Concat([i \in 1..Len(n.kids) |-> ExtractTexts(n.kids[i].v)])
      [] OTHER -> <<>>

\* " ".join(texts): one space between neighbours is implied by the token
\* sequence; an empty element leaves two spaces in a row, kept as a Pad
JoinSpace(texts) ==
    Concat([i \in 1..Len(texts) |-> IF texts[i] = <<>> THEN <<Pad>> ELSE texts[i]])

_extract_all_text(lesson_data) == JoinSpace(ExtractTexts(lesson_data))

\* a token the pattern \w+\] matches in full: the word closing "[Emphasis: word]"
IsEmphClose(tk) == tk.pre = "" /\ tk.core # "" /\ tk.post = "]"

\* "[Emphasis:" at index i followed by the word closing it
EmphasisAt(s, i) == i >= 1 /\ i < Len(s) /\ s[i] = EmphOpen /\ IsEmphClose(s[i + 1])

\* re.sub(r"\[Emphasis:\s*\w+\]", "", ...) on the whitespace-separated tokens
StripEmphasis(s) ==
    SelectIndices(s, SelectSeq(Indices(Len(s)),
                               LAMBDA i : ~EmphasisAt(s, i) /\ ~EmphasisAt(s, i - 1)))

\* the three re.sub calls of _extract_sentences, in their order
StripMarkers(text) ==
    LET noBeat == SelectSeq(text, LAMBDA tk : tk # BeatTok)
        noPause == SelectSeq(noBeat, LAMBDA tk : tk # PauseTok)
    IN StripEmphasis(Split(noPause))

\* the last character of the token is one of . ! ?
EndsSentence(tk) == tk.post \in {".", "!", "?"}

\* re.split(r'(?<=[.!?])\s+', ...): a sentence starts at the first token and
\* after every token that ends one, and runs to the next such token or the end
SplitSentences(s) ==
    LET n == Len(s)
        starts == SelectSeq([i \in 1..n |-> i],
                            LAMBDA i : i = 1 \/ EndsSentence(s[i - 1]))
        endOf(i) == CHOOSE e \in i..n :
                        /\ e = n \/ EndsSentence(s[e])
                        /\ \A j \in i..(e - 1) : ~EndsSentence(s[j])
    IN [k \in 1..Len(starts) |-> SubSeq(s, starts[k], endOf(starts[k]))]

_extract_sentences(text) == SplitSentences(StripMarkers(text))

\* a token with at least one character of [a-zA-Z0-9]
HasAlnum(tk) == tk.core # ""

_count_words(sentence) == Len(SelectSeq(Split(sentence), HasAlnum))


-----------------------------------------------------------------------------
(* Grade-level constants (validator.py lines 21-101) *)

Grades == {"K", "1", "2", "3", "4", "5"}

\* dict.get(grade, table["3"]) on a table keyed by the six grade codes
GradeOrDefault3(grade) == IF grade \in Grades THEN grade ELSE "3"

LANGUAGE_CEILINGS ==
    [g \in Grades |->
        CASE g = "K" -> [max_sentence_length |-> 7, new_vocab_max |-> 3]
          [] g = "1" -> [max_sentence_length |-> 8, new_vocab_max |-> 4]
          [] g = "2" -> [max_sentence_length |-> 10, new_vocab_max |-> 5]
          [] g = "3" -> [max_sentence_length |-> 12, new_vocab_max |-> 6]
          [] g = "4" -> [max_sentence_length |-> 15, new_vocab_max |-> 8]
          [] g = "5" -> [max_sentence_length |-> 18, new_vocab_max |-> 10]]

\* the counts required at L1..L5
BLOOM_DISTRIBUTION ==
    [g \in Grades |->
        CASE g = "K" -> <<4, 4, 2, 0, 0>>
          [] g = "1" -> <<3, 4, 2, 1, 0>>
          [] g = "2" -> <<3, 3, 2, 1, 1>>
          [] g = "3" -> <<2, 3, 3, 1, 1>>
          [] g = "4" -> <<2, 2, 3, 2, 1>>
          [] g = "5" -> <<1, 2, 3, 2, 2>>]

\* the 24 interaction type names of ALLOWED_INTERACTIONS, in order of first use
InteractionNames == <<
    <<Cap("tap"), W("to"), Cap("select")>>,
    <<Cap("tap"), Cap("all"), Cap("that"), Cap("apply")>>,
    <<Cap("tap"), W("to"), Cap("count")>>,
    <<Cap("tap"), W("in"), Cap("sequence")>>,
    <<Cap("tap"), Cap("yes"), Punct("/"), Cap("no")>>,
    <<Cap("reveal"), W("on"), Cap("tap")>>,
    <<Cap("tap"), W("to"), Cap("build")>>,
    <<Cap("drag"), W("and"), Cap("drop")>>,
    <<Cap("drag"), W("to"), Cap("sort")>>,
    <<Cap("drag"), W("to"), Cap("complete")>>,
    <<Cap("follow"), W("the"), Cap("path")>>,
    <<Cap("drag"), W("to"), W("reorder"), W("items")>>,
    <<Cap("drag"), W("along"), W("a"), W("path")>>,
    <<Cap("match"), W("one"), W("item"), W("to"), W("another")>>,
    <<Cap("flip"), W("to"), W("find"), W("a"), W("pair")>>,
    <<Cap("choose"), W("the"), Cap("odd"), Cap("one"), Cap("out")>>,
    <<Cap("match"), W("item"), W("to"), W("placeholder")>>,
    <<Cap("trace"), W("with"), Cap("finger")>>,
    <<Cap("swipe"), W("to"), Cap("move")>>,
    <<Cap("slide"), W("to"), W("adjust"), W("size"), W("or"), W("value")>>,
    <<Cap("scratch"), W("to"), W("reveal")>>,
    <<Cap("listen"), W("and"), Cap("respond")>>,
    <<Cap("listen"), W("and"), W("respond")>>,
    <<Cap("listen"), W("and"), W("act")>> >>

Names(ixs) == [i \in 1..Len(ixs) |-> InteractionNames[ixs[i]]]

ALLOWED_INTERACTIONS ==
    [g \in Grades |->
        CASE g = "K" -> Names(<<1, 2, 3, 4, 5, 6, 7, 8, 9, 10, 11, 12, 13, 14, 15, 16,
                                17, 18, 19, 20, 21, 22, 23, 24>>)
          [] g = "1" -> Names(<<1, 2, 3, 4, 5, 6, 7, 8, 9, 10, 11, 12, 14, 15, 16, 17,
                                18, 19, 20, 22, 23>>)
          [] g = "2" -> Names(<<1, 2, 4, 5, 6, 8, 9, 10, 12, 14, 15, 16, 17, 20, 22, 23>>)
          [] g \in {"3", "4", "5"} ->
                        Names(<<1, 2, 4, 5, 8, 9, 10, 12, 14, 16, 17, 22>>)]

-----------------------------------------------------------------------------
(* CheckResult, and the outcome of calling a check *)

NoDetails == [count |-> 0, shown |-> 0, found |-> <<>>]

\* a check that returned CheckResult(name, status, details)
Returned(name, status, details) ==
    [raised |-> FALSE, name |-> name, status |-> status, details |-> details, error |-> ""]

\* a check that raised an exception with text exc
Raised(exc) ==
    [raised |-> TRUE, name |-> "", status |-> "", details |-> NoDetails, error |-> exc]

CheckResult(name, status, details, error) ==
    [name |-> name, status |-> status, details |-> details, error |-> error]

Min(a, b) == IF a < b THEN a ELSE b

\* x.get(...) raises AttributeError unless x is a dict
NoGet(n) == n.t # "dict"

-----------------------------------------------------------------------------
(* CHECK a) Language Ceiling *)

\* a variant that counts every match of the pattern, repeated words included
EmphasisMatches(text) ==
    LET s == Split(text)
    IN {j \in 1..(Len(s) - 1) : s[j] = EmphOpen /\ IsEmphClose(s[j + 1])}

\* re.findall(r'\[Emphasis:\s*(\w+)\]', all_text): the distinct marked words
EmphasisWords(text) ==
    LET s == Split(text)
    IN {s[i + 1] : i \in {j \in 1..(Len(s) - 1) : s[j] = EmphOpen /\ IsEmphClose(s[j + 1])}}

language_ceiling_check(lesson_data, grade) ==
    LET ceiling == LANGUAGE_CEILINGS[GradeOrDefault3(grade)]
        max_len == ceiling.max_sentence_length
        max_vocab == ceiling.new_vocab_max
        all_text == _extract_all_text(lesson_data)
        sentences == _extract_sentences(all_text)
        violations == SelectSeq(sentences, LAMBDA sent : _count_words(sent) > max_len)
        new_vocab_count == Cardinality(EmphasisWords(all_text))
        vocab_exceeded == new_vocab_count > max_vocab
        details == [count |-> Len(violations),
                    shown |-> Min(Len(violations), 5),
                    found |-> <<>>]
    IN IF violations # <<>> \/ vocab_exceeded
       THEN Returned("language_ceiling", "failed", details)
       ELSE Returned("language_ceiling", "passed", details)

-----------------------------------------------------------------------------
(* CHECK b) Bloom's Distribution *)

\* the index of a level name "L1".."L5", 0 for any other string
LevelOf(bl) ==
    IF Len(bl) = 1 /\ bl[1] \in {Up("l1"), Up("l2"), Up("l3"), Up("l4"), Up("l5")}
    THEN CHOOSE k \in 1..5 : bl[1] = Up(<<"l1", "l2", "l3", "l4", "l5">>[k])
    ELSE 0

\* q.get("bloom_level", "").upper().strip() for a dict q holding a string
BloomOf(q) == Strip(Upper(Get(q, "bloom_level", EmptyStr).s))

\* q.get("bloom_level", "").upper() raises: q is no dict, or the value no string
BloomRaises(q) == NoGet(q) \/ Get(q, "bloom_level", EmptyStr).t # "str"

\* a variant that takes the last three items of the quiz, quiz[-3:]
LastThree(n) == (IF n > 3 THEN n - 2 ELSE 1)..n

\* the positions of quiz[7:10] in a quiz of n items
Q8toQ10(n) == 8..(IF n < 10 THEN n ELSE 10)

blooms_distribution_check(lesson_data, grade) ==
    IF NoGet(lesson_data) THEN Raised("AttributeError: no attribute 'get'")
    ELSE
    LET expected == BLOOM_DISTRIBUTION[GradeOrDefault3(grade)]
        quiz == Get(lesson_data, "quick_quiz", EmptyList) IN
    IF ~Truthy(quiz) THEN Returned("blooms_distribution", "failed", NoDetails)
    ELSE IF quiz.t = "int" THEN Raised("TypeError: object is not iterable")
    \* iterating a str or a dict yields strings, which have no get
    ELSE IF quiz.t # "list" THEN Raised("AttributeError: no attribute 'get'")
    ELSE
    LET qs == Items(quiz) IN
    IF \E i \in 1..Len(qs) : BloomRaises(qs[i])
    THEN \* the first item of the counting loop that raises decides the exception
         LET bad == CHOOSE i \in 1..Len(qs) :
                        BloomRaises(qs[i]) /\ \A j \in 1..(i - 1) : ~BloomRaises(qs[j])
         IN IF NoGet(qs[bad]) THEN Raised("AttributeError: no attribute 'get'")
            ELSE Raised("AttributeError: no attribute 'upper'")
    ELSE
    LET actual == [k \in 1..5 |-> Cardinality({i \in 1..Len(qs) : LevelOf(BloomOf(qs[i])) = k})]
        distribution_match == \A k \in 1..5 : actual[k] = expected[k]
        \* quiz[:3] and quiz[7:10]
        first3 == 1..Min(3, Len(qs))
        last3 == Q8toQ10(Len(qs))
        progression_ok ==
            /\ \A i \in first3 : LevelOf(BloomOf(qs[i])) \in {1, 2}
            /\ \A i \in last3 : LevelOf(BloomOf(qs[i])) \in {3, 4, 5}
    IN IF ~distribution_match \/ ~progression_ok
       THEN Returned("blooms_distribution", "failed", NoDetails)
       ELSE Returned("blooms_distribution", "passed", NoDetails)

-----------------------------------------------------------------------------
(* CHECK c) Interaction Type *)

\* a variant of the membership test that accepts every type
InAnySeq(x, sq) == TRUE

InSeq(x, sq) == \E i \in 1..Len(sq) : sq[i] = x

interaction_type_check(lesson_data, grade) ==
    IF NoGet(lesson_data) THEN Raised("AttributeError: no attribute 'get'")
    ELSE
    LET allowed == ALLOWED_INTERACTIONS[GradeOrDefault3(grade)]
        activity == Get(lesson_data, "interactive_activity", EmptyDict) IN
    IF ~Truthy(activity) THEN Returned("interaction_type", "failed", NoDetails)
    ELSE IF NoGet(activity) THEN Raised("AttributeError: no attribute 'get'")
    ELSE
    LET activity_type == Get(activity, "type", EmptyStr) IN
    IF activity_type.t # "str" THEN Raised("AttributeError: no attribute 'lower'")
    ELSE IF Get(activity, "bloom_level", EmptyStr).t # "str"
         THEN Raised("AttributeError: no attribute 'upper'")
    ELSE
    LET allowed_lower == [i \in 1..Len(allowed) |-> Lower(allowed[i])]
        is_allowed == InSeq(Lower(activity_type.s), allowed_lower)
        bloom_ok == LevelOf(BloomOf(activity)) \in {3, 4}
    IN IF ~is_allowed THEN Returned("interaction_type", "failed", NoDetails)
       ELSE IF ~bloom_ok THEN Returned("interaction_type", "failed", NoDetails)
       ELSE Returned("interaction_type", "passed", NoDetails)

-----------------------------------------------------------------------------
(* Substring search on lower-cased text: `concept.lower() in all_text` *)

\* pairs <<a, b>> of distinct cores where b is a proper prefix / suffix of a
PrefixPairs == {<<"rainbow", "rain">>, <<"waterfall", "water">>}
SuffixPairs == {<<"rainbow", "bow">>, <<"waterfall", "fall">>}

CoreStarts(a, b) == a = b \/ b = "" \/ <<a, b>> \in PrefixPairs
CoreEnds(a, b) == a = b \/ b = "" \/ <<a, b>> \in SuffixPairs
CoreContains(a, b) == CoreStarts(a, b) \/ CoreEnds(a, b)

\* the case of the letters after the first one of a token
TailCase(cap) == IF cap = "title" THEN "lower" ELSE cap

\* the letters of tc are written as the first / the last letters of tt are
StartCase(tt, tc) == tc.core = "" \/ Caseless(tc.core) \/ tc.cap = tt.cap
EndCase(tt, tc) ==
    \/ tc.core = "" \/ Caseless(tc.core)
    \/ tc.cap = (IF tt.core = tc.core THEN tt.cap ELSE TailCase(tt.cap))
CaseInside(tt, tc) ==
    IF CoreStarts(tt.core, tc.core) THEN StartCase(tt, tc) ELSE EndCase(tt, tc)

\* the text of token tc occurs inside the text of token tt
TokInside(tt, tc) ==
    CASE tc.pre = "" /\ tc.post = "" -> CoreContains(tt.core, tc.core) /\ CaseInside(tt, tc)
      [] tc.pre = "" /\ tc.post # "" ->
            IF tc.core = "" THEN tc.post \in {tt.pre, tt.post}
            ELSE CoreEnds(tt.core, tc.core) /\ tt.post = tc.post /\ EndCase(tt, tc)
      [] tc.pre # "" /\ tc.post = "" ->
            tt.pre = tc.pre /\ CoreStarts(tt.core, tc.core) /\ StartCase(tt, tc)
      [] OTHER -> tt = tc

\* the text of tt ends with / starts with the text of tc
TokEndsWith(tt, tc) ==
    /\ tt.post = tc.post
    /\ IF tc.pre = ""
       THEN CoreEnds(tt.core, tc.core) /\ (tc.core # "" \/ tt.core = "") /\ EndCase(tt, tc)
       ELSE tt.pre = tc.pre /\ tt.core = tc.core /\ tt.cap = tc.cap
TokStartsWith(tt, tc) ==
    /\ tt.pre = tc.pre
    /\ IF tc.post = ""
       THEN CoreStarts(tt.core, tc.core) /\ (tc.core # "" \/ tt.core = "") /\ StartCase(tt, tc)
       ELSE tt.core = tc.core /\ tt.post = tc.post /\ tt.cap = tc.cap

\* Python's `c in text`
Occurs(c, text) ==
    LET n == Len(c) IN
    IF n = 0 THEN TRUE
    ELSE IF n = 1 THEN \E i \in 1..Len(text) : TokInside(text[i], c[1])
    ELSE \E i \in 1..(Len(text) - n + 1) :
            /\ TokEndsWith(text[i], c[1])
            /\ \A j \in 2..(n - 1) : text[i + j - 1] = c[j]
            /\ TokStartsWith(text[i + n - 1], c[n])

-----------------------------------------------------------------------------
(* CHECK d) Definition (soft check) *)

\* a variant in which a missing term fails the check
definition_check_hard(lesson_data, kb_definitions) ==
    IF kb_definitions = <<>>
    THEN Returned("definition_alignment", "warning", NoDetails)
    ELSE
    LET all_text == Lower(_extract_all_text(lesson_data))
        missing_concepts == SelectSeq(kb_definitions,
                                      LAMBDA concept : ~Occurs(Lower(concept), all_text))
        details == [count |-> Len(kb_definitions) - Len(missing_concepts),
                    shown |-> Len(kb_definitions),
                    found |-> missing_concepts]
    IN IF missing_concepts # <<>>
       THEN Returned("definition_alignment", "failed", details)
       ELSE Returned("definition_alignment", "passed", details)

\* kb_definitions is None or the sequence of its keys (the concept terms)
definition_check(lesson_data, kb_definitions) ==
    IF kb_definitions = <<>>
    THEN Returned("definition_alignment", "warning", NoDetails)
    ELSE
    LET all_text == Lower(_extract_all_text(lesson_data))
        missing_concepts == SelectSeq(kb_definitions,
                                      LAMBDA concept : ~Occurs(Lower(concept), all_text))
        details == [count |-> Len(kb_definitions) - Len(missing_concepts),
                    shown |-> Len(kb_definitions),
                    found |-> missing_concepts]
    IN IF missing_concepts # <<>>
       THEN Returned("definition_alignment", "warning", details)
       ELSE Returned("definition_alignment", "passed", details)

-----------------------------------------------------------------------------
(* CHECK e) Story Integration (soft check) *)

\* cores of at most three characters
ShortCores == {"", "a", "to", "in", "on", "or", "is", "it", "no", "l1", "l2", "l3", "l4",
               "l5", "7", "99", "the", "and", "one", "act", "all", "yes", "odd", "out",
               "tap", "wet", "sun", "bow", "we"}

RECURSIVE StrOf(_)
\* str(x): the text of a string, the repr of anything else
StrOf(n) ==
    CASE n.t = "str" -> n.s
      [] n.t = "none" -> <<Cap("none")>>
      [] n.t = "int" -> n.s
      [] OTHER ->
            Concat([i \in 1..Len(n.kids) |->
                        (IF n.kids[i].k = "" THEN <<>> ELSE <<W(n.kids[i].k)>>)
                        \o StrOf(n.kids[i].v)])

\* [w.lower() for w in re.findall(r'\b\w+\b', context_narrative) if len(w) > 3]
NarrativeTerms(context_narrative) ==
    LET ws == SelectSeq(context_narrative, LAMBDA tk : tk.core \notin ShortCores)
    IN [i \in 1..Len(ws) |-> ws[i].core]

\* sum(1 for t in narrative_terms if t in text)
References(terms, text) ==
    Cardinality({i \in 1..Len(terms) :
                    \E j \in 1..Len(text) : CoreContains(text[j].core, terms[i])})

\* a variant that reads the opening with lesson_data["opening_narration"] and
\* raises KeyError when the section is absent
story_integration_check_required(lesson_data, context_narrative) ==
    IF context_narrative = <<>>
    THEN Returned("story_integration", "passed", NoDetails)
    ELSE IF NoGet(lesson_data) THEN Raised("TypeError: indices must be integers")
    ELSE IF ~HasKey(lesson_data, "opening_narration")
    THEN Raised("KeyError: 'opening_narration'")
    ELSE Returned("story_integration", "passed", NoDetails)

story_integration_check(lesson_data, context_narrative) ==
    IF context_narrative = <<>>
    THEN Returned("story_integration", "passed", NoDetails)
    ELSE IF NoGet(lesson_data) THEN Raised("AttributeError: no attribute 'get'")
    ELSE
    LET opening == Get(lesson_data, "opening_narration", EmptyDict)
        strValues == SelectSeq(Items(opening), LAMBDA v : v.t = "str")
        opening_text ==
            IF opening.t = "dict"
            THEN Lower(JoinSpace([i \in 1..Len(strValues) |-> strValues[i].s]))
            ELSE Lower(StrOf(opening))
        narrative_terms == NarrativeTerms(context_narrative)
        opening_references == References(narrative_terms, opening_text)
        explanations == Get(lesson_data, "narrated_explanation", EmptyList)
        exps == IF explanations.t = "list"
                THEN SelectSeq(Items(explanations), LAMBDA e : e.t = "dict")
                ELSE <<>>
        explanation_text ==
            Lower(Concat([i \in 1..Len(exps) |-> StrOf(Get(exps[i], "teacher_explains", EmptyStr))]))
        explanation_references == References(narrative_terms, explanation_text)
        details == [count |-> opening_references, shown |-> explanation_references,
                    found |-> <<>>]
    IN IF opening_references = 0 /\ explanation_references = 0
       THEN Returned("story_integration", "warning", details)
       ELSE Returned("story_integration", "passed", details)

-----------------------------------------------------------------------------
(* CHECK f) Audio Pacing *)

\* a variant that counts both markers, whichever is asked for
CountAnyMarker(text, marker) ==
    Cardinality({i \in 1..Len(text) : text[i] \in {BeatTok, PauseTok}})

\* len(re.findall(pattern, all_text)) for a one-token marker
CountTok(text, marker) == Cardinality({i \in 1..Len(text) : text[i] = marker})

audio_pacing_check(lesson_data) ==
    LET all_text == _extract_all_text(lesson_data)
        beat_count == CountTok(all_text, BeatTok)
        pause_count == CountTok(all_text, PauseTok)
        has_pause == pause_count >= 1
        has_beats == beat_count >= 1
        details == [count |-> beat_count, shown |-> pause_count, found |-> <<>>]
    IN IF ~has_pause THEN Returned("audio_pacing", "failed", details)
       ELSE IF ~has_beats THEN Returned("audio_pacing", "failed", details)
       ELSE Returned("audio_pacing", "passed", details)

-----------------------------------------------------------------------------
(* CHECK g) Feedback Structure *)

\* `if not f: ... elif len(f.split()) < 4` raises for a truthy non-string
FeedbackRaises(f) == Truthy(f) /\ f.t # "str"

\* the feedback string is missing, or shorter than four words
FeedbackIssue(f) == ~Truthy(f) \/ Len(Split(f.s)) < 4

\* the body of the quiz loop raises on item q
QuizItemRaises(q) ==
    \/ NoGet(q)
    \/ FeedbackRaises(Get(q, "feedback_correct", EmptyStr))
    \/ FeedbackRaises(Get(q, "feedback_incorrect", EmptyStr))

feedback_structure_check(lesson_data) ==
    IF NoGet(lesson_data) THEN Raised("AttributeError: no attribute 'get'")
    ELSE
    LET activity == Get(lesson_data, "interactive_activity", EmptyDict)
        quiz == Get(lesson_data, "quick_quiz", EmptyList) IN
    IF NoGet(activity) THEN Raised("AttributeError: no attribute 'get'")
    ELSE
    LET has_hint_1 == Truthy(Get(activity, "feedback_hint_1", EmptyStr))
        has_hint_2 == Truthy(Get(activity, "feedback_hint_2", EmptyStr))
        has_hint_3 == Truthy(Get(activity, "feedback_reveal", EmptyStr))
        activity_hints_ok == has_hint_1 /\ has_hint_2 /\ has_hint_3 IN
    \* enumerate(quiz): None and int are not iterable
    IF quiz.t \in {"none", "int"} THEN Raised("TypeError: object is not iterable")
    \* a non-empty str or dict yields strings, which have no get
    ELSE IF quiz.t \in {"str", "dict"} /\ Truthy(quiz)
         THEN Raised("AttributeError: no attribute 'get'")
    ELSE
    LET qs == IF quiz.t = "list" THEN Items(quiz) ELSE <<>> IN
    IF \E i \in 1..Len(qs) : QuizItemRaises(qs[i])
    THEN LET bad == CHOOSE i \in 1..Len(qs) :
                        QuizItemRaises(qs[i]) /\ \A j \in 1..(i - 1) : ~QuizItemRaises(qs[j])
         IN IF NoGet(qs[bad]) THEN Raised("AttributeError: no attribute 'get'")
            ELSE Raised("AttributeError: no attribute 'split'")
    ELSE
    LET issuesOf(key) ==
            Cardinality({i \in 1..Len(qs) : FeedbackIssue(Get(qs[i], key, EmptyStr))})
        quiz_feedback_issues == issuesOf("feedback_correct") + issuesOf("feedback_incorrect")
        quiz_feedback_complete == quiz_feedback_issues = 0
        details == [count |-> quiz_feedback_issues,
                    shown |-> Min(quiz_feedback_issues, 5),
                    found |-> <<>>]
    IN IF ~activity_hints_ok THEN Returned("feedback_structure", "failed", details)
       ELSE IF ~quiz_feedback_complete THEN Returned("feedback_structure", "failed", details)
       ELSE Returned("feedback_structure", "passed", details)

-----------------------------------------------------------------------------
(* CHECK h) Content Isolation *)

\* a variant that compares the concept as written with the lower-cased text
content_isolation_check_cased(lesson_data, exclusions) ==
    LET all_text == Lower(_extract_all_text(lesson_data))
        excluded_found == SelectSeq(exclusions, LAMBDA concept : Occurs(concept, all_text))
        details == [count |-> Len(excluded_found), shown |-> Len(exclusions),
                    found |-> excluded_found]
    IN IF excluded_found # <<>>
       THEN Returned("content_isolation", "failed", details)
       ELSE Returned("content_isolation", "passed", details)

content_isolation_check(lesson_data, exclusions) ==
    LET all_text == Lower(_extract_all_text(lesson_data))
        excluded_found == SelectSeq(exclusions,
                                    LAMBDA concept : Occurs(Lower(concept), all_text))
        details == [count |-> Len(excluded_found), shown |-> Len(exclusions),
                    found |-> excluded_found]
    IN IF excluded_found # <<>>
       THEN Returned("content_isolation", "failed", details)
       ELSE Returned("content_isolation", "passed", details)

-----------------------------------------------------------------------------
(* ValidationReport (validator.py lines 119-159); overall_score is kept in    *)
(* hundredths: 81 stands for 0.81                                              *)

ValidationReport ==
    [passed |-> TRUE, checks |-> <<>>, warnings |-> <<>>, errors |-> <<>>,
     overall_score |-> 100]

\* a variant of add_check in which a warning also clears `passed`
add_check_strict(rep, check) ==
    LET appended == [rep EXCEPT !.checks = Append(@, check)] IN
    IF check.status \in {"failed", "warning"}
    THEN [appended EXCEPT !.passed = FALSE] ELSE appended

add_check(rep, check) ==
    LET appended == [rep EXCEPT !.checks = Append(@, check)] IN
    IF check.status = "failed"
    THEN [appended EXCEPT !.passed = FALSE,
                          !.errors = Append(@, [type |-> check.name, severity |-> "high"])]
    ELSE IF check.status = "warning"
    THEN [appended EXCEPT !.warnings = Append(@, [type |-> check.name, severity |-> "low"])]
    ELSE appended

CountStatus(checks, status) ==
    Cardinality({i \in 1..Len(checks) : checks[i].status = status})

\* a variant that cuts the quotient off after two decimals
TruncHundredths(a, b) == (100 * a) \div b

\* round(a / b, 2) in hundredths for a, b in halves of checks: the quotient
\* 100 * a / b rounded to the nearest integer, an exact tie going to the even one
RoundHundredths(a, b) ==
    LET q == (100 * a) \div b
        r == (100 * a) % b
    IN IF 2 * r < b THEN q
       ELSE IF 2 * r > b THEN q + 1
       ELSE IF q % 2 = 0 THEN q ELSE q + 1

compute_score(rep) ==
    IF rep.checks = <<>> THEN [rep EXCEPT !.overall_score = 0]
    ELSE
    LET total == Len(rep.checks)
        passed == CountStatus(rep.checks, "passed")
        warned == CountStatus(rep.checks, "warning")
    IN [rep EXCEPT !.overall_score = RoundHundredths(2 * passed + warned, 2 * total)]

-----------------------------------------------------------------------------
(* LessonValidator.validate (validator.py lines 231-280) *)

\* the list `checks` of validate, by name
CheckNames == <<"language_ceiling", "blooms_distribution", "interaction_type",
                "definition_alignment", "story_integration", "audio_pacing",
                "feedback_structure", "content_isolation">>

\* `x or []`, `x or ""`, `x or {}` for an optional argument
OrEmpty(opt) == IF opt.given THEN opt.v ELSE <<>>

\* check_fn(lesson_data=..., grade=..., exclusions=exclusions or [], ...)
CallCheck(check_name, inp) ==
    CASE check_name = "language_ceiling" -> language_ceiling_check(inp.lesson_data, inp.grade)
      [] check_name = "blooms_distribution" ->
            blooms_distribution_check(inp.lesson_data, inp.grade)
      [] check_name = "interaction_type" -> interaction_type_check(inp.lesson_data, inp.grade)
      [] check_name = "definition_alignment" ->
            definition_check(inp.lesson_data, OrEmpty(inp.kb_definitions))
      [] check_name = "story_integration" ->
            story_integration_check(inp.lesson_data, OrEmpty(inp.context_narrative))
      [] check_name = "audio_pacing" -> audio_pacing_check(inp.lesson_data)
      [] check_name = "feedback_structure" -> feedback_structure_check(inp.lesson_data)
      [] check_name = "content_isolation" ->
            content_isolation_check(inp.lesson_data, OrEmpty(inp.exclusions))

\* variants of the except branch: one lets the exception leave validate, one
\* swallows it without recording a check
except_reraise(rep, check_name, exc) == [raised |-> TRUE, report |-> rep]

except_swallow(rep, check_name, exc) == [raised |-> FALSE, report |-> rep]

\* the `except Exception as exc:` branch: the exception becomes a failed check
except_handler(rep, check_name, exc) ==
    [raised |-> FALSE,
     report |-> add_check(rep, CheckResult(check_name, "failed", NoDetails, exc))]

\* the body of the try: the check's result is added to the report
try_body(rep, r) ==
    [raised |-> FALSE,
     report |-> add_check(rep, CheckResult(r.name, r.status, r.details, ""))]

\* one iteration of the for loop: the try statement around one check
try_check(rep, check_name, r) ==
    IF r.raised THEN except_handler(rep, check_name, r.error)
    ELSE try_body(rep, r)

RECURSIVE RunChecks(_, _, _)

\* the rest of the loop after one iteration; an exception leaving the try
\* statement ends the call
NextCheck(step, names, inp) ==
    IF step.raised THEN step ELSE RunChecks(step.report, names, inp)

\* the for loop over `checks`
RunChecks(rep, names, inp) ==
    IF names = <<>> THEN [raised |-> FALSE, report |-> rep]
    ELSE NextCheck(try_check(rep, Head(names), CallCheck(Head(names), inp)),
                   Tail(names), inp)

\* after the loop: report.compute_score(); return report
Finish(run) ==
    IF run.raised THEN run
    ELSE [raised |-> FALSE, report |-> compute_score(run.report)]

validate(inp) == Finish(RunChecks(ValidationReport, CheckNames, inp))

-----------------------------------------------------------------------------
(* The lessons and arguments validate() is applied to *)

\* a sentence of n words ending in a full stop
Sentence(n) == [i \in 1..n |-> IF i = n THEN WP("falls", ".") ELSE W("rain")]

FeedbackGood == <<Cap("good"), W("work"), W("that"), WP("helps", ".")>>
FeedbackShort == <<Tok("", "correct", "title", "!")>>
\* four whitespace-separated tokens, one of them a pacing marker
FeedbackBeat == <<Cap("good"), BeatTok, W("that"), WP("helps", ".")>>
HintText == <<Cap("look"), W("again"), WP("closely", ".")>>

Level(k) == Up(<<"l1", "l2", "l3", "l4", "l5">>[k])

\* one quiz item: a question, its level and the two feedback strings
QuizItem(bloom, fc, fi) ==
    Dict(<<KV("question", Str(<<Cap("what"), WP("falls", "?")>>)),
           KV("bloom_level", bloom),
           KV("feedback_correct", fc),
           KV("feedback_incorrect", fi)>>)

GoodItem(k) == QuizItem(Str(<<Level(k)>>), Str(FeedbackGood), Str(FeedbackGood))

QuizOf(levels) == List([i \in 1..Len(levels) |-> GoodItem(levels[i])])

\* ten items matching the grade 3 and the grade 5 distribution, in rising order
Levels3 == <<1, 1, 2, 2, 2, 3, 3, 3, 4, 5>>
Levels5 == <<1, 2, 2, 3, 3, 3, 4, 4, 5, 5>>
Levels1 == <<1, 1, 1, 2, 2, 2, 2, 3, 3, 4>>

\* values of lesson_data["quick_quiz"]; "absent" leaves the key out
QuizOptions == <<
    [present |-> TRUE, v |-> QuizOf(Levels3)],
    [present |-> TRUE, v |-> QuizOf(Levels5)],
    [present |-> TRUE, v |-> QuizOf(Levels1)],
    [present |-> TRUE, v |-> QuizOf(<<1, 1, 1, 1, 1, 1, 1, 1, 1, 1>>)],
    \* level strings in lower case and padded with blanks
    [present |-> TRUE, v |-> List([i \in 1..10 |->
        QuizItem(Str(<<Pad, W(<<"l1", "l2", "l3", "l4", "l5">>[Levels3[i]]), Pad>>),
                 Str(FeedbackGood), Str(FeedbackBeat))])],
    \* one feedback string too short, one missing
    [present |-> TRUE, v |-> List([i \in 1..10 |->
        IF i = 4 THEN QuizItem(Str(<<Level(Levels3[i])>>), Str(FeedbackShort), EmptyStr)
        ELSE GoodItem(Levels3[i])])],
    [present |-> FALSE, v |-> None],
    [present |-> TRUE, v |-> EmptyList],
    [present |-> TRUE, v |-> None],
    [present |-> TRUE, v |-> Str(<<W("quiz")>>)],
    [present |-> TRUE, v |-> IntVal("7")],
    \* malformed items: not a dict; a level that is None; a feedback that is a list
    [present |-> TRUE, v |-> List(<<GoodItem(1), Str(<<W("item")>>)>>)],
    [present |-> TRUE, v |-> List(<<QuizItem(None, Str(FeedbackGood), Str(FeedbackGood))>>)],
    [present |-> TRUE, v |-> List(<<GoodItem(1),
        QuizItem(Str(<<Level(2)>>), List(<<Str(FeedbackGood)>>), Str(FeedbackGood))>>)],
    \* eleven items: the ten of grade 3 and one more whose level is empty
    [present |-> TRUE, v |-> List([i \in 1..11 |->
        IF i = 11 THEN QuizItem(EmptyStr, Str(FeedbackGood), Str(FeedbackGood))
        ELSE GoodItem(Levels3[i])])],
    \* twelve items, two of them without a level: the counts of grade 3, the
    \* last three items at L3, L4, L5 and the eighth at L2
    [present |-> TRUE, v |-> List([i \in 1..12 |->
        IF i \in {7, 9} THEN QuizItem(EmptyStr, Str(FeedbackGood), Str(FeedbackGood))
        ELSE GoodItem(<<1, 1, 2, 2, 3, 3, 0, 2, 0, 3, 4, 5>>[i])])] >>

Activity(type, bloom, h1, h2, h3) ==
    Dict(<<KV("type", type), KV("bloom_level", bloom),
           KV("feedback_hint_1", h1), KV("feedback_hint_2", h2), KV("feedback_reveal", h3)>>)

\* values of lesson_data["interactive_activity"]
ActivityOptions == <<
    [present |-> TRUE, v |-> Activity(Str(InteractionNames[8]), Str(<<Level(3)>>),
                                      Str(HintText), Str(HintText), Str(HintText))],
    \* the type in lower case; the level L4 in lower case
    [present |-> TRUE, v |-> Activity(Str(Lower(InteractionNames[8])), Str(<<W("l4")>>),
                                      Str(HintText), Str(HintText), Str(HintText))],
    \* a type allowed for grade K only
    [present |-> TRUE, v |-> Activity(Str(InteractionNames[21]), Str(<<Level(3)>>),
                                      Str(HintText), Str(HintText), Str(HintText))],
    [present |-> TRUE, v |-> Activity(Str(InteractionNames[8]), Str(<<Level(1)>>),
                                      Str(HintText), Str(HintText), Str(HintText))],
    \* the second hint empty; every hint a lone pacing marker
    [present |-> TRUE, v |-> Activity(Str(InteractionNames[8]), Str(<<Level(3)>>),
                                      Str(HintText), EmptyStr, Str(HintText))],
    [present |-> TRUE, v |-> Activity(Str(InteractionNames[8]), Str(<<Level(3)>>),
                                      Str(<<BeatTok>>), Str(<<PauseTok>>), Str(HintText))],
    [present |-> FALSE, v |-> None],
    [present |-> TRUE, v |-> None],
    [present |-> TRUE, v |-> List(<<Str(InteractionNames[8])>>)],
    [present |-> TRUE, v |-> Activity(None, Str(<<Level(3)>>),
                                      Str(HintText), Str(HintText), Str(HintText))],
    [present |-> TRUE, v |-> Activity(Str(InteractionNames[8]), IntVal("7"),
                                      Str(HintText), Str(HintText), Str(HintText))] >>

\* values of lesson_data["opening_narration"]
OpeningOptions == <<
    [present |-> TRUE, v |-> Dict(<<KV("text",
        Str(<<Cap("today"), BeatTok, W("we"), W("learn"), W("about"), WP("water", "."), PauseTok>>))>>)],
    \* no pacing marker at all
    [present |-> TRUE, v |-> Dict(<<KV("text", Str(<<Cap("water"), WP("falls", ".")>>))>>)],
    \* a [Beat] but no [Pause], and a marker in lower case
    [present |-> TRUE, v |-> Dict(<<KV("text",
        Str(<<Cap("water"), BeatTok, WP("falls", "."), Tok("[", "pause", "lower", "]")>>))>>)],
    \* a sentence of 13 words, and one of 19
    [present |-> TRUE, v |-> Dict(<<KV("text", Str(<<BeatTok, PauseTok>> \o Sentence(13)))>>)],
    [present |-> TRUE, v |-> Dict(<<KV("text", Str(<<BeatTok, PauseTok>> \o Sentence(19)))>>)],
    \* four distinct emphasis-marked words
    [present |-> TRUE, v |-> Dict(<<KV("text",
        Str(<<BeatTok, PauseTok, EmphOpen, EmphClose("water"), EmphOpen, EmphClose("rain"),
              EmphOpen, EmphClose("cloud"), EmphOpen, EmphClose("river"),
              EmphOpen, EmphClose("water"), WP("falls", ".")>>))>>)],
    [present |-> FALSE, v |-> None],
    \* not a dict
    [present |-> TRUE, v |-> Str(<<Cap("rainbow"), BeatTok, PauseTok, WP("shines", ".")>>)],
    \* six sentences of 9 words
    [present |-> TRUE, v |-> Dict(<<KV("text",
        Str(<<BeatTok, PauseTok>> \o Concat([i \in 1..6 |-> Sentence(9)])))>>)] >>

\* values of lesson_data["narrated_explanation"]
ExplanationOptions == <<
    [present |-> TRUE, v |-> List(<<Dict(<<KV("teacher_explains",
        Str(<<Cap("plants"), W("need"), WP("water", ".")>>))>>)>>)],
    [present |-> FALSE, v |-> None],
    [present |-> TRUE, v |-> List(<<None, Dict(<<KV("teacher_explains", None)>>)>>)] >>

Field(k, opt) == IF opt.present THEN <<KV(k, opt.v)>> ELSE <<>>

\* a lesson dict from one option per section
MakeLesson(o, e, a, q) ==
    Dict(Field("opening_narration", OpeningOptions[o])
         \o Field("narrated_explanation", ExplanationOptions[e])
         \o Field("interactive_activity", ActivityOptions[a])
         \o Field("quick_quiz", QuizOptions[q])
         \o <<KV("conclusion", Str(<<Cap("well"), WP("done", "!")>>))>>)

\* lesson_data values that are no dict
NonDictLessons == <<
    List(<<Str(<<Cap("water"), BeatTok, PauseTok, WP("falls", ".")>>)>>),
    Str(Sentence(13)),
    None,
    IntVal("7") >>

\* an optional argument: None, or a value
NoneArg == [given |-> FALSE, v |-> <<>>]
Opt(v) == [given |-> TRUE, v |-> v]

GradeArgs == Grades \cup {"99", ""}

ExclusionArgs == <<NoneArg, Opt(<<>>), Opt(<< <<Cap("water")>> >>),
                   Opt(<< <<W("volcano")>>, <<W("need"), W("water")>> >>)>>

NarrativeArgs == <<NoneArg, Opt(<<Cap("water"), W("falls"), W("from"), W("clouds")>>),
                   Opt(<<Cap("volcano"), W("erupts")>>), Opt(<<W("the"), W("sun")>>)>>

DefinitionArgs == <<NoneArg, Opt(<< <<W("water")>> >>),
                    Opt(<< <<W("water")>>, <<W("volcano")>> >>),
                    Opt(<<>>), Opt(<< <<Cap("plants"), Up("need")>> >>)>>

\* a lesson is named by the option chosen for each section, or by its place in
\* NonDictLessons
LessonId(nd, o, e, a, q) == [nd |-> nd, o |-> o, e |-> e, a |-> a, q |-> q]

LessonOf(id) == IF id.nd > 0 THEN NonDictLessons[id.nd]
                ELSE MakeLesson(id.o, id.e, id.a, id.q)

\* the keyword arguments of one validate call, named by the options chosen
Call(lesson, grade, ex, nar, defs) ==
    [lesson |-> lesson, grade |-> grade, ex |-> ex, nar |-> nar, defs |-> defs]

Args(call) ==
    [lesson_data |-> LessonOf(call.lesson), grade |-> call.grade,
     exclusions |-> ExclusionArgs[call.ex],
     context_narrative |-> NarrativeArgs[call.nar],
     kb_definitions |-> DefinitionArgs[call.defs]]

\* every activity and quiz option with the first opening and explanation, and
\* every opening and explanation option with the first activity and quiz
DictLessons ==
    {LessonId(0, 1, 1, a, q) : a \in 1..Len(ActivityOptions), q \in 1..Len(QuizOptions)}
    \cup {LessonId(0, o, e, 1, 1) : o \in 1..Len(OpeningOptions),
                                    e \in 1..Len(ExplanationOptions)}

AllLessons == DictLessons \cup {LessonId(i, 0, 0, 0, 0) : i \in 1..Len(NonDictLessons)}

\* the lessons tried with every combination of the optional arguments
ProbeLessons ==
    {LessonId(0, o, 1, 1, 1) : o \in 1..Len(OpeningOptions)}
    \cup {LessonId(0, 1, 3, 1, 1), LessonId(0, 7, 2, 1, 1)}
    \cup {LessonId(0, 1, 1, 6, 1), LessonId(0, 1, 1, 1, 5)}
    \cup {LessonId(i, 0, 0, 0, 0) : i \in 1..Len(NonDictLessons)}

ValidateInputs ==
    {Call(l, g, 1, 1, 1) : l \in AllLessons, g \in GradeArgs}
    \cup {Call(l, "3", ex, nar, defs) : l \in ProbeLessons,
                                       ex \in 1..Len(ExclusionArgs),
                                       nar \in 1..Len(NarrativeArgs),
                                       defs \in 1..Len(DefinitionArgs)}

\* add_check calls a caller makes on a report of its own, and on a returned one
MaxChecks == 8
MaxExtraChecks == 1

\* the input of the runs in which the caller builds the report by hand
ManualInput == Call(LessonId(3, 0, 0, 0, 0), "3", 1, 1, 1)

Statuses == {"passed", "failed", "warning"}

-----------------------------------------------------------------------------
(* Knowledge-base documents (kb_loader.py).  A document's text is a         *)
(* sequence of lines; a line records what the regular expressions of the    *)
(* parsers can see in it.                                                    *)

NoLevels == <<0, 0, 0, 0, 0>>

Line(k, g, n, l, w) == [k |-> k, g |-> g, n |-> n, l |-> l, w |-> w]

\* "## Grade <g> ..."
GradeHeading(g) == Line("grade_heading", g, 0, NoLevels, <<>>)
\* "Maximum sentence length: <a>-<n> words"
SentenceLength(n) == Line("sentence_length", "", n, NoLevels, <<>>)
\* "New words per lesson: <a>-<n>"
NewWords(n) == Line("new_words", "", n, NoLevels, <<>>)
\* `Allowed connectors: "w1", "w2", ...` with the quoted words w
Connectors(w) == Line("connectors", "", 0, NoLevels, w)
\* "Allowed connectors: all common conjunctions"
AllConnectors == Line("connectors", "all", 0, NoLevels, <<>>)
\* "| <g> | l1 | l2 | l3 | l4 | l5 | total |"
TableRow(g, l) == Line("table_row", g, 0, l, <<>>)
\* "### Allowed Types", any other "### ..." heading
AllowedTypes == Line("allowed_types", "", 0, NoLevels, <<>>)
SubHeading == Line("sub_heading", "", 0, NoLevels, <<>>)
\* "**<category>:** t1, t2, ..." with the comma-separated items w
Category(w) == Line("category", "", 0, NoLevels, w)
\* any other line, told apart by n
Prose(n) == Line("prose", "", n, NoLevels, <<>>)

\* the indices of the lines of kind k, in order
LinesOf(content, k) ==
    SelectSeq([i \in 1..Len(content) |-> i], LAMBDA i : content[i].k = k)

\* section_re.split(content): the body of the section whose heading is line i
\* runs to the line before the next "## Grade" heading
SectionBody(content, i) ==
    LET later == SelectSeq(LinesOf(content, "grade_heading"), LAMBDA j : j > i)
    IN SubSeq(content, i + 1, IF later = <<>> THEN Len(content) ELSE later[1] - 1)

\* the grade codes of the "## Grade" headings
SectionGrades(content) ==
    {content[i].g : i \in {j \in 1..Len(content) : content[j].k = "grade_heading"}}

\* the headings of the sections of grade g, in order
SectionsOf(content, g) ==
    SelectSeq(LinesOf(content, "grade_heading"), LAMBDA i : content[i].g = g)

\* a dict keeps the value assigned last: the body of the last of the sections
\* whose headings are given
LastSection(content, heads) == SectionBody(content, heads[Len(heads)])

\* re.search(...).group(1) as an int on the first line of kind k, or default
FirstNumber(body, k, default) ==
    LET hits == LinesOf(body, k)
    IN IF hits = <<>> THEN default ELSE body[hits[1]].n

AllConjunctions == <<W("and"), W("but"), W("or"), W("so"), W("because"),
                     W("when"), W("if"), W("although"), W("however"), W("therefore")>>

\* the alternatives of the findall pattern, matched ignoring case
QuotedConnectors == {"and", "but", "or", "so", "because", "when", "if", "although"}

\* list(dict.fromkeys(...)): the first occurrence of each element, in order
Unique(s) ==
    SelectIndices(s, SelectSeq(Indices(Len(s)),
                               LAMBDA i : \A j \in 1..(i - 1) : s[j] /= s[i]))

\* the connectors of one section, lower-cased and without repetitions
ConnectorsOf(body) ==
    LET hits == LinesOf(body, "connectors")
        connLine == body[hits[1]]
    IN IF hits = <<>> THEN <<>>
       ELSE IF connLine.g = "all" THEN AllConjunctions
       ELSE Unique(Lower(SelectSeq(connLine.w, LAMBDA tk : tk.core \in QuotedConnectors)))

LanguageCeiling(grade, max_sentence_length, max_new_vocab, allowed_connectors) ==
    [grade |-> grade,
     max_sentence_length |-> max_sentence_length,
     max_new_vocab |-> max_new_vocab,
     allowed_connectors |-> allowed_connectors,
     can_use_because |-> \E i \in 1..Len(allowed_connectors) :
                            allowed_connectors[i] = W("because")]

DefaultMaxSentence == 18
DefaultMaxVocab == 10

CeilingOf(grade_code, body) ==
    LanguageCeiling(grade_code,
                    FirstNumber(body, "sentence_length", DefaultMaxSentence),
                    FirstNumber(body, "new_words", DefaultMaxVocab),
                    ConnectorsOf(body))

_parse_language_guidelines(content) ==
    [g \in SectionGrades(content) |->
        CeilingOf(g, LastSection(content, SectionsOf(content, g)))]

\* the grade codes the row pattern accepts: [K1-5]
RowGrades == {"K", "1", "2", "3", "4", "5"}

IsRow(ln) == ln.k = "table_row" /\ ln.g \in RowGrades

BloomLevels(l) == [L1 |-> l[1], L2 |-> l[2], L3 |-> l[3], L4 |-> l[4], L5 |-> l[5]]

\* the row matched last for a grade is the one kept
_parse_bloom_distributions(content) ==
    LET rows == SelectSeq(content, IsRow)
        lastRow(g) == LET of == SelectSeq(rows, LAMBDA ln : ln.g = g) IN of[Len(of)]
    IN [g \in {rows[i].g : i \in 1..Len(rows)} |-> BloomLevels(lastRow(g).l)]

\* the "### Allowed Types" subsection of a section body: from its heading to
\* the line before the next "###" heading
AllowedBody(body) ==
    LET starts == LinesOf(body, "allowed_types")
        subs == SelectSeq([i \in 1..Len(body) |-> i],
                          LAMBDA i : i > starts[1]
                                     /\ body[i].k \in {"allowed_types", "sub_heading"})
    IN IF starts = <<>> THEN <<>>
       ELSE SubSeq(body, starts[1], IF subs = <<>> THEN Len(body) ELSE subs[1] - 1)

\* [t.strip() for t in ....split(",") if t.strip()]
ItemsOf(ln) == SelectSeq([i \in 1..Len(ln.w) |-> Strip(ln.w[i])], LAMBDA t : t /= <<>>)

\* the types of every "**Category:**" line of the Allowed Types subsection
TypesOf(body) ==
    LET allowed_body == AllowedBody(body)
        cats == LinesOf(allowed_body, "category")
    IN Concat([i \in 1..Len(cats) |-> ItemsOf(allowed_body[cats[i]])])

\* a section is stored whatever it lists
AnySection(body) == TRUE

\* `if types:` -- a section that lists no type assigns nothing
HasTypes(body) == TypesOf(body) /= <<>>

_parse_allowed_interactions(content) ==
    LET grades == {g \in SectionGrades(content) :
                      \E i \in 1..Len(content) :
                          /\ content[i].k = "grade_heading" /\ content[i].g = g
                          /\ HasTypes(SectionBody(content, i))}
        assigning(g) == SelectSeq(SectionsOf(content, g),
                                  LAMBDA i : HasTypes(SectionBody(content, i)))
    IN [g \in grades |-> TypesOf(LastSection(content, assigning(g)))]

-----------------------------------------------------------------------------
(* The document store and KBLoader (kb_loader.py, config.py) *)

\* Settings.kb_required_files and Settings.kb_expected_files (config.py)
kb_required_files == <<"language_guidelines.md", "NCERT_Pedagogical_Style_Knowledge.md",
                       "digital_interactions.md", "question_bank.md">>

kb_expected_files == kb_required_files \o <<"definitions_and_examples.md", "KB_MASTER_GUIDE.md">>

\* the *.md names the store may hold, in the order sorted() puts them: by
\* code point, upper case before lower case
SortedNames == <<"KB_MASTER_GUIDE.md", "NCERT_Pedagogical_Style_Knowledge.md",
                 "definitions_and_examples.md", "digital_interactions.md",
                 "language_guidelines.md", "notes.md", "question_bank.md">>

DocNames == {SortedNames[i] : i \in 1..Len(SortedNames)}

Rank(name) == CHOOSE i \in 1..Len(SortedNames) : SortedNames[i] = name

\* sorted(names) for a sequence of distinct names
sorted(names) ==
    [k \in 1..Len(names) |->
        names[CHOOSE i \in 1..Len(names) :
                Cardinality({j \in 1..Len(names) : Rank(names[j]) < Rank(names[i])}) = k - 1]]

\* a variant that leaves the names in the order given
unsorted(names) == names

\* a document of the store: absent, present but not readable (read_text
\* raises OSError), or a readable file with its text
Absent == [state |-> "absent", text |-> <<>>]
Unreadable(text) == [state |-> "unreadable", text |-> text]
File(text) == [state |-> "file", text |-> text]

\* (self.kb_path / f).exists()
exists(docs, f) == docs[f].state /= "absent"

\* sorted(self.kb_path.glob("*.md")), as names
glob(docs) == SelectSeq(SortedNames, LAMBDA f : exists(docs, f))

\* a variant that also insists on the optional documents
validate_expected_files(docs, required) ==
    SelectSeq(kb_expected_files, LAMBDA f : ~exists(docs, f))

\* missing = [f for f in required if not (self.kb_path / f).exists()]
_validate_required_files(docs, required) ==
    SelectSeq(required, LAMBDA f : ~exists(docs, f))

\* a dict str -> str as its items in insertion order
Entry(name, text) == [name |-> name, text |-> text]

Keys(d) == [i \in 1..Len(d) |-> d[i].name]

\* d.get(name, "")
GetText(d, name) ==
    LET hits == SelectSeq(d, LAMBDA e : e.name = name)
    IN IF hits = <<>> THEN <<>> ELSE hits[1].text

\* the files read_text succeeds on, in glob order
_read_files(docs) ==
    LET readable == SelectSeq(glob(docs), LAMBDA f : docs[f].state = "file")
    IN [i \in 1..Len(readable) |-> Entry(readable[i], docs[readable[i]].text)]

\* name.encode("utf-8"): the bytes of a name, as one element of the stream
NameBytes(name) == Line("name", name, 0, NoLevels, <<>>)

\* the keys in the order the digest is fed
ChecksumOrder(names) == sorted(names)

\* the SHA-256 digest is taken as one-to-one on the byte stream it is fed:
\* each name followed by its text, nothing in between
_compute_checksum(raw_content) ==
    LET order == ChecksumOrder(Keys(raw_content))
    IN Concat([i \in 1..Len(order) |->
                  <<NameBytes(order[i])>> \o GetText(raw_content, order[i])])

\* self._cache: None, or the KBData built by load(); gen tells the objects of
\* one load() from those of another
NoCache ==
    [loaded |-> FALSE, gen |-> 0, version |-> "", checksum |-> <<>>,
     files_loaded |-> <<>>, raw_content |-> <<>>, language_ceilings |-> <<>>,
     bloom_distributions |-> <<>>, allowed_interactions |-> <<>>]

KBData(raw_content, g) ==
    [loaded |-> TRUE, gen |-> g, version |-> "1.0",
     checksum |-> _compute_checksum(raw_content),
     files_loaded |-> sorted(Keys(raw_content)),
     raw_content |-> raw_content,
     language_ceilings |->
        _parse_language_guidelines(GetText(raw_content, "language_guidelines.md")),
     bloom_distributions |->
        _parse_bloom_distributions(
            GetText(raw_content, "NCERT_Pedagogical_Style_Knowledge.md")),
     allowed_interactions |->
        _parse_allowed_interactions(GetText(raw_content, "digital_interactions.md"))]

\* how a call of load() ends: the cache it leaves, the exception it raises
\* ("" for none), and the existence checks and file reads it made
Ended(kb, exc, missing_files, probes, reads) ==
    [cache |-> kb, exc |-> exc, missing_files |-> missing_files,
     probes |-> probes, reads |-> reads]

\* load() past the cache test, given the outcome of _validate_required_files
load_files(docs, kb, g, missing) ==
    IF missing /= <<>>
    THEN Ended(kb, "KBLoadError", missing, Len(kb_required_files), 0)
    ELSE Ended(KBData(_read_files(docs), g + 1), "", <<>>,
               Len(kb_required_files), Len(glob(docs)))

\* a variant of load() without the cache test
load_always(docs, kb, g) ==
    load_files(docs, kb, g, _validate_required_files(docs, kb_required_files))

\* KBLoader.load(); g counts the snapshots built so far
load(docs, kb, g) ==
    IF kb.loaded THEN Ended(kb, "", <<>>, 0, 0)
    ELSE load_files(docs, kb, g, _validate_required_files(docs, kb_required_files))

\* a reload() that keeps the previous snapshot when the new load fails
reload_keeping(docs, kb, g) ==
    LET ended == load(docs, NoCache, g)
    IN IF ended.exc /= "" THEN [ended EXCEPT !.cache = kb] ELSE ended

\* KBLoader.reload()
reload(docs, kb, g) == load(docs, NoCache, g)

\* the value a call hands back: what it is, and the object of the snapshot it
\* is (kind, gen, key), if it is one and no copy
NoRef == [kind |-> "copy", gen |-> 0, key |-> ""]
Ref(kind, g, key) == [kind |-> kind, gen |-> g, key |-> key]

\* the result of one loader call
Result(op, arg, ended, value, ref, exc) ==
    [op |-> op, arg |-> arg, exc |-> exc, missing_files |-> ended.missing_files,
     value |-> value, ref |-> ref, probes |-> ended.probes, reads |-> ended.reads,
     cache |-> ended.cache]

\* a call that ends with the exception load() raised
Failed(op, arg, ended) == Result(op, arg, ended, "", NoRef, ended.exc)

\* `if grade not in table: grade = fallback`
GradeKey(table, grade, fallback) == IF grade \in DOMAIN table THEN grade ELSE fallback

\* return kb.language_ceilings[grade]: the object of the snapshot itself
ceiling_of(ended, grade, key) ==
    IF ended.exc /= "" THEN Failed("get_language_ceiling", grade, ended)
    ELSE IF key \notin DOMAIN ended.cache.language_ceilings
    THEN Result("get_language_ceiling", grade, ended, "", NoRef, "KeyError")
    ELSE Result("get_language_ceiling", grade, ended, ended.cache.language_ceilings[key],
                Ref("language_ceiling", ended.cache.gen, key), "")

get_language_ceiling(docs, kb, g, grade) ==
    LET ended == load(docs, kb, g)
    IN ceiling_of(ended, grade,
                  IF ended.exc = ""
                  THEN GradeKey(ended.cache.language_ceilings, grade, "5") ELSE grade)

\* return dict(kb.bloom_distributions[grade]): a new dict
bloom_of(ended, grade, key) ==
    IF ended.exc /= "" THEN Failed("get_bloom_distribution", grade, ended)
    ELSE IF key \notin DOMAIN ended.cache.bloom_distributions
    THEN Result("get_bloom_distribution", grade, ended, "", NoRef, "KeyError")
    ELSE Result("get_bloom_distribution", grade, ended,
                ended.cache.bloom_distributions[key], NoRef, "")

get_bloom_distribution(docs, kb, g, grade) ==
    LET ended == load(docs, kb, g)
    IN bloom_of(ended, grade,
                IF ended.exc = ""
                THEN GradeKey(ended.cache.bloom_distributions, grade, "3") ELSE grade)

\* return list(kb.allowed_interactions[grade]): a new list
interactions_of(ended, grade, key) ==
    IF ended.exc /= "" THEN Failed("get_allowed_interactions", grade, ended)
    ELSE IF key \notin DOMAIN ended.cache.allowed_interactions
    THEN Result("get_allowed_interactions", grade, ended, "", NoRef, "KeyError")
    ELSE Result("get_allowed_interactions", grade, ended,
                ended.cache.allowed_interactions[key], NoRef, "")

get_allowed_interactions(docs, kb, g, grade) ==
    LET ended == load(docs, kb, g)
    IN interactions_of(ended, grade,
                       IF ended.exc = ""
                       THEN GradeKey(ended.cache.allowed_interactions, grade, "5")
                       ELSE grade)

\* return kb.raw_content.get(filename, "")
full_content_of(ended, filename) ==
    IF ended.exc /= "" THEN Failed("get_full_content", filename, ended)
    ELSE Result("get_full_content", filename, ended,
                GetText(ended.cache.raw_content, filename), NoRef, "")

get_full_content(docs, kb, g, filename) == full_content_of(load(docs, kb, g), filename)

\* a call that reads the cache and leaves it alone
Untouched(kb) == Ended(kb, "", <<>>, 0, 0)

VersionInfo(kb_version, checksum, files_loaded) ==
    [kb_version |-> kb_version, checksum |-> checksum, files_loaded |-> files_loaded]

\* get_kb_version(); "files_loaded" is the list of the snapshot itself
get_kb_version(kb) ==
    IF ~kb.loaded
    THEN Result("get_kb_version", "", Untouched(kb),
                VersionInfo("not_loaded", <<>>, <<>>), NoRef, "")
    ELSE Result("get_kb_version", "", Untouched(kb),
                VersionInfo(kb.version, kb.checksum, kb.files_loaded),
                Ref("files_loaded", kb.gen, ""), "")

\* a loader that takes itself for loaded from the start
is_constructed(kb) == Result("is_loaded", "", Untouched(kb), TRUE, NoRef, "")

is_loaded(kb) == Result("is_loaded", "", Untouched(kb), kb.loaded, NoRef, "")

\* load() and reload() return the snapshot; the result names it by its gen
loaded_result(op, ended) ==
    IF ended.exc /= "" THEN Failed(op, "", ended)
    ELSE Result(op, "", ended, ended.cache.checksum, Ref("snapshot", ended.cache.gen, ""), "")

-----------------------------------------------------------------------------
(* The documents the loader is run on *)

LanguageFull ==
    <<Prose(1),
      GradeHeading("3"), SentenceLength(12), NewWords(6),
      Connectors(<<W("and"), Cap("but"), W("because"), W("and"), W("however")>>),
      GradeHeading("5"), SentenceLength(18), NewWords(10), AllConnectors>>

\* no "## Grade 5" section, and no ceilings in the grade 3 section
LanguageNoGrade5 == <<Prose(1), GradeHeading("3"), Prose(2)>>

NcertFull ==
    <<Prose(1), TableRow("K", <<4, 4, 2, 0, 0>>), TableRow("1", <<3, 4, 2, 1, 0>>),
      TableRow("2", <<3, 3, 2, 1, 1>>), TableRow("3", <<2, 3, 3, 1, 1>>),
      TableRow("4", <<2, 2, 3, 2, 1>>), TableRow("5", <<1, 2, 3, 2, 2>>),
      TableRow("12", <<9, 9, 9, 9, 9>>)>>

\* no row for grade 3
NcertNoGrade3 == <<TableRow("5", <<1, 2, 3, 2, 2>>)>>

DigitalFull ==
    <<GradeHeading("3"), AllowedTypes,
      Category(<<InteractionNames[8], <<Pad>>, <<Pad>> \o InteractionNames[3]>>),
      SubHeading, Category(<<InteractionNames[21]>>),
      GradeHeading("5"), AllowedTypes, Category(<<InteractionNames[8]>>),
      Category(<<InteractionNames[1]>>),
      GradeHeading("K"), AllowedTypes, Category(<<InteractionNames[3]>>),
      GradeHeading("1"), AllowedTypes, Category(<<InteractionNames[3]>>),
      GradeHeading("2"), AllowedTypes, Category(<<InteractionNames[1]>>),
      GradeHeading("4"), AllowedTypes, Category(<<InteractionNames[8]>>)>>

\* the grade 5 section lists no allowed types
DigitalNoGrade5 ==
    <<GradeHeading("3"), AllowedTypes, Category(<<InteractionNames[8]>>),
      GradeHeading("5"), SubHeading, Category(<<InteractionNames[1]>>)>>

\* the text a document has at first, and the text an edit gives it
Text(f) ==
    CASE f = "language_guidelines.md" -> LanguageFull
      [] f = "NCERT_Pedagogical_Style_Knowledge.md" -> NcertFull
      [] f = "digital_interactions.md" -> DigitalFull
      [] OTHER -> <<Prose(1), NameBytes(f)>>

Edited(f) ==
    CASE f = "language_guidelines.md" -> LanguageNoGrade5
      [] f = "NCERT_Pedagogical_Style_Knowledge.md" -> NcertNoGrade3
      [] f = "digital_interactions.md" -> DigitalNoGrade5
      [] OTHER -> <<Prose(2), NameBytes(f)>>

Required == {kb_required_files[i] : i \in 1..Len(kb_required_files)}
Expected == {kb_expected_files[i] : i \in 1..Len(kb_expected_files)}

\* every expected document present with its first text
FullStore == [f \in DocNames |-> IF f \in Expected THEN File(Text(f)) ELSE Absent]

\* any subset of the expected documents present, each with its first text
PresenceStores ==
    {[f \in DocNames |-> IF f \in present THEN File(Text(f)) ELSE Absent] :
        present \in SUBSET Expected}

\* the required documents present with either text, or empty
LookupStores ==
    {[f \in DocNames |->
        IF f \in Required THEN File(IF f \in edited THEN Edited(f) ELSE Text(f))
        ELSE FullStore[f]] : edited \in SUBSET Required}
    \cup {[FullStore EXCEPT !["language_guidelines.md"] = File(<<>>)]}

\* what a change of the store can make of document f
DocStates(f) == {Absent, File(Text(f)), File(Edited(f)), Unreadable(Text(f))}

GradeCodes == {"3", "5", "99", ""}

\* snapshots a run may build, changes of the store, and mutations by a caller
MaxSnapshots == 2
MaxStoreChanges == 1
MaxMutations == 1

-----------------------------------------------------------------------------
(* States in which one of the two components is left alone *)

NoResult ==
    [op |-> "none", arg |-> "", exc |-> "", missing_files |-> <<>>, value |-> "",
     ref |-> NoRef, probes |-> 0, reads |-> 0, seen |-> {}]

\* what the caller has in hand after a call; seen names the snapshots read
Observed(r) ==
    [op |-> r.op, arg |-> r.arg, exc |-> r.exc, missing_files |-> r.missing_files,
     value |-> r.value, ref |-> r.ref, probes |-> r.probes, reads |-> r.reads,
     seen |-> {r.cache.gen}]

ReaderIdle == [at |-> "idle", kb_version |-> "", checksum |-> <<>>, seen |-> {}]

\* a loader no operation is applied to
LoaderParked ==
    /\ store = FullStore /\ cache = NoCache /\ gen = 0 /\ result = NoResult
    /\ changes = 0 /\ mutations = 0 /\ pc = "idle" /\ rd = ReaderIdle

\* a validator no operation is applied to
ValidatorParked ==
    /\ input = ManualInput /\ report = ValidationReport /\ outcome = "none"
    /\ lastOp = "new" /\ budget = 0

\* no exception
NoExc == [type |-> "", msg |-> "", cause |-> "", attempt |-> 0]

\* nothing returned or raised yet
NoOutcome == [kind |-> "none", lesson |-> "", exc |-> NoExc]

\* an orchestrator no call is made on
OrchestratorParked ==
    /\ api_key = TRUE /\ attempt = 0 /\ last_exc = NoExc /\ io = <<>>
    /\ opc = "idle" /\ generated = NoOutcome

\* no lesson
NoLesson == [lesson |-> [nd |-> 0, o |-> 0, e |-> 0, a |-> 0, q |-> 0], grade |-> "",
             ex |-> 0, nar |-> 0, defs |-> 0]

\* no rows
NoRows == [requests |-> {}, lessons |-> {}, audit |-> {}]

\* a response: of which endpoint, the HTTP status, and what its body tells
Response(op, code, id, status, docx) ==
    [op |-> op, code |-> code, request_id |-> id, status |-> status, docx |-> docx]

NoResponse == Response("none", 0, 0, "", "")

\* an API no request is made to
ApiParked ==
    /\ apc = "idle" /\ request_id = 0 /\ lesson_dict = NoLesson /\ session = NoRows
    /\ db = NoRows /\ response = NoResponse /\ delivered = <<>>

ServicesParked == OrchestratorParked /\ ApiParked

-----------------------------------------------------------------------------
(* The validator as a state machine *)

InitValidator ==
    /\ \/ input \in ValidateInputs /\ budget = MaxExtraChecks
       \/ input = ManualInput /\ budget = MaxChecks
    /\ report = ValidationReport
    /\ outcome = "none"
    /\ lastOp = "new"
    /\ LoaderParked /\ ServicesParked

\* await validator.validate(**input); the call starts from its own fresh report
Validate ==
    /\ lastOp = "new"
    /\ \E res \in {validate(Args(input))} :
        /\ report' = res.report
        /\ outcome' = IF res.raised THEN "raised" ELSE "returned"
    /\ lastOp' = "validate"
    /\ UNCHANGED <<input, budget, kvars, svars>>

\* report.add_check(CheckResult("custom", status))
AddCheck ==
    /\ budget > 0
    /\ \E status \in Statuses :
          report' = add_check(report, CheckResult("custom", status, NoDetails, ""))
    /\ budget' = budget - 1
    /\ lastOp' = "add_check"
    /\ UNCHANGED <<input, outcome, kvars, svars>>

\* report.compute_score()
ComputeScore ==
    /\ report' = compute_score(report)
    /\ lastOp' = "compute_score"
    /\ UNCHANGED <<input, outcome, budget, kvars, svars>>

Next == Validate \/ AddCheck \/ ComputeScore

Spec == InitValidator /\ [][Next]_vars

-----------------------------------------------------------------------------
(* The loader as a state machine *)

\* the call ended as r tells
Return(r) ==
    /\ cache' = r.cache
    /\ gen' = IF r.cache.gen > gen THEN r.cache.gen ELSE gen
    /\ result' = Observed(r)
    /\ UNCHANGED <<store, changes, mutations, pc, rd, vvars, svars>>

\* a call that may build a snapshot is held back once MaxSnapshots are built
MayLoad == cache.loaded \/ gen < MaxSnapshots

Load ==
    /\ rd.at = "idle" /\ MayLoad
    /\ Return(loaded_result("load", load(store, cache, gen)))

Reload ==
    /\ rd.at = "idle" /\ gen < MaxSnapshots
    /\ Return(loaded_result("reload", reload(store, cache, gen)))

GetLanguageCeiling ==
    /\ rd.at = "idle" /\ MayLoad
    /\ \E grade \in GradeCodes : Return(get_language_ceiling(store, cache, gen, grade))

GetBloomDistribution ==
    /\ rd.at = "idle" /\ MayLoad
    /\ \E grade \in GradeCodes : Return(get_bloom_distribution(store, cache, gen, grade))

GetAllowedInteractions ==
    /\ rd.at = "idle" /\ MayLoad
    /\ \E grade \in GradeCodes : Return(get_allowed_interactions(store, cache, gen, grade))

GetFullContent ==
    /\ rd.at = "idle" /\ MayLoad
    /\ \E f \in {"question_bank.md", "notes.md"} :
          Return(get_full_content(store, cache, gen, f))

GetKbVersion ==
    /\ rd.at = "idle"
    /\ Return(get_kb_version(cache))

IsLoaded ==
    /\ rd.at = "idle"
    /\ Return(is_loaded(cache))

\* the environment writes, edits, removes or locks one document
StoreChange ==
    /\ changes > 0
    /\ \E f \in DocNames : \E d \in DocStates(f) :
          /\ d /= store[f]
          /\ store' = [store EXCEPT ![f] = d]
    /\ changes' = changes - 1
    /\ UNCHANGED <<cache, gen, result, mutations, pc, rd, vvars, svars>>

\* what the caller makes of a value it was handed
Mutated(op, value) ==
    CASE op = "get_language_ceiling" -> [value EXCEPT !.max_sentence_length = 99]
      [] op = "get_bloom_distribution" -> [value EXCEPT !.L1 = 99]
      [] op = "get_allowed_interactions" -> Append(value, <<W("anything")>>)
      [] op = "get_kb_version" -> [value EXCEPT !.files_loaded = Append(@, "notes.md")]

\* the snapshot after a write to the object ref names: the write lands in the
\* snapshot when the object is one of the current snapshot's own
WriteThrough(kb, ref, op, value) ==
    IF ~kb.loaded \/ ref.gen /= kb.gen THEN kb
    ELSE IF ref.kind = "language_ceiling"
    THEN [kb EXCEPT !.language_ceilings[ref.key] = Mutated(op, value)]
    ELSE IF ref.kind = "files_loaded"
    THEN [kb EXCEPT !.files_loaded = Mutated(op, value).files_loaded]
    ELSE kb

\* the caller changes the value the last lookup returned
MutateReturned ==
    /\ rd.at = "idle" /\ mutations < MaxMutations
    /\ result.exc = ""
    /\ result.op \in {"get_language_ceiling", "get_bloom_distribution",
                      "get_allowed_interactions", "get_kb_version"}
    /\ result' = [NoResult EXCEPT !.op = "mutate", !.arg = result.op]
    /\ cache' = WriteThrough(cache, result.ref, result.op, result.value)
    /\ mutations' = mutations + 1
    /\ UNCHANGED <<store, gen, changes, pc, rd, vvars, svars>>

\* loads and reloads against a store that changes
InitKB ==
    /\ store \in PresenceStores
    /\ cache = NoCache /\ gen = 0 /\ result = NoResult
    /\ changes = MaxStoreChanges /\ mutations = 0 /\ pc = "idle" /\ rd = ReaderIdle
    /\ ValidatorParked /\ ServicesParked

NextKB == Load \/ Reload \/ StoreChange \/ IsLoaded

SpecKB == InitKB /\ [][NextKB]_vars

\* lookups on a loader whose store holds the required documents
InitLookup ==
    /\ store \in LookupStores
    /\ cache = NoCache /\ gen = 0 /\ result = NoResult
    /\ changes = 0 /\ mutations = 0 /\ pc = "idle" /\ rd = ReaderIdle
    /\ ValidatorParked /\ ServicesParked

NextLookup ==
    \/ Load \/ Reload \/ GetLanguageCeiling \/ GetBloomDistribution
    \/ GetAllowedInteractions \/ GetFullContent \/ GetKbVersion \/ IsLoaded
    \/ MutateReturned

SpecLookup == InitLookup /\ [][NextLookup]_vars

\* the environment removes a required document, or puts it back
RequiredChange ==
    /\ changes > 0
    /\ \E f \in Required :
          store' = [store EXCEPT ![f] = IF store[f].state = "absent"
                                       THEN File(Text(f)) ELSE Absent]
    /\ changes' = changes - 1
    /\ UNCHANGED <<cache, gen, result, mutations, pc, rd, vvars, svars>>

\* a fresh loader over a store that holds every document but at most one
InitLoader ==
    /\ store \in {FullStore} \cup {[FullStore EXCEPT ![f] = Absent] : f \in Required}
    /\ cache = NoCache /\ gen = 0 /\ result = NoResult
    /\ changes = MaxStoreChanges /\ mutations = 0 /\ pc = "idle" /\ rd = ReaderIdle
    /\ ValidatorParked /\ ServicesParked

\* every operation of the loader, in any order, while required documents
\* come and go
NextLoader ==
    \/ Load \/ Reload \/ GetLanguageCeiling \/ GetBloomDistribution
    \/ GetAllowedInteractions \/ GetFullContent \/ GetKbVersion \/ IsLoaded
    \/ RequiredChange

SpecLoader == InitLoader /\ [][NextLoader]_vars

-----------------------------------------------------------------------------
(* reload() in one thread while another thread reads the same KBLoader.     *)
(* KBLoader holds no lock; a thread switch can fall between the two         *)
(* statements of reload() and between the reads of self._cache that         *)
(* get_kb_version() makes.                                                  *)

\* reload(), first statement: self._cache = None
ReloadClear ==
    /\ pc = "idle" /\ gen < MaxSnapshots
    /\ cache' = NoCache
    /\ pc' = "cleared"
    /\ UNCHANGED <<store, gen, result, changes, mutations, rd, vvars, svars>>

\* reload(), second statement: return self.load()
ReloadLoad ==
    /\ pc = "cleared"
    /\ \E ended \in {load(store, cache, gen)} :
          /\ cache' = ended.cache
          /\ gen' = IF ended.cache.gen > gen THEN ended.cache.gen ELSE gen
    /\ pc' = "idle"
    /\ UNCHANGED <<store, result, changes, mutations, rd, vvars, svars>>

\* the reader's call ends with res
ReaderReturns(res) ==
    /\ result' = res
    /\ rd' = ReaderIdle
    /\ UNCHANGED <<store, cache, gen, changes, mutations, pc, vvars, svars>>

\* the reader goes on to the next read of self._cache
ReaderMoves(next) ==
    /\ rd' = next
    /\ UNCHANGED <<store, cache, gen, result, changes, mutations, pc, vvars, svars>>

\* self._cache.<attribute> with self._cache None
AttributeError(seen) ==
    [NoResult EXCEPT !.op = "get_kb_version", !.exc = "AttributeError",
                     !.seen = seen \cup {0}]

\* get_kb_version(): `if self._cache is None`
GkvTest ==
    /\ rd.at = "idle"
    /\ IF ~cache.loaded THEN ReaderReturns(Observed(get_kb_version(cache)))
       ELSE ReaderMoves([ReaderIdle EXCEPT !.at = "version", !.seen = {cache.gen}])

\* "kb_version": self._cache.version
GkvVersion ==
    /\ rd.at = "version"
    /\ IF ~cache.loaded THEN ReaderReturns(AttributeError(rd.seen))
       ELSE ReaderMoves([rd EXCEPT !.at = "checksum", !.kb_version = cache.version,
                                   !.seen = @ \cup {cache.gen}])

\* "checksum": self._cache.checksum
GkvChecksum ==
    /\ rd.at = "checksum"
    /\ IF ~cache.loaded THEN ReaderReturns(AttributeError(rd.seen))
       ELSE ReaderMoves([rd EXCEPT !.at = "files_loaded", !.checksum = cache.checksum,
                                   !.seen = @ \cup {cache.gen}])

\* "files_loaded": self._cache.files_loaded, and the return
GkvFiles ==
    /\ rd.at = "files_loaded"
    /\ IF ~cache.loaded THEN ReaderReturns(AttributeError(rd.seen))
       ELSE ReaderReturns(
              [NoResult EXCEPT !.op = "get_kb_version",
                               !.value = VersionInfo(rd.kb_version, rd.checksum,
                                                     cache.files_loaded),
                               !.ref = Ref("files_loaded", cache.gen, ""),
                               !.seen = rd.seen \cup {cache.gen}])

\* the environment edits one document that is present
StoreEdit ==
    /\ changes > 0
    /\ \E f \in DocNames :
          /\ store[f].state = "file" /\ store[f].text /= Edited(f)
          /\ store' = [store EXCEPT ![f] = File(Edited(f))]
    /\ changes' = changes - 1
    /\ UNCHANGED <<cache, gen, result, mutations, pc, rd, vvars, svars>>

\* a loaded loader, shared by a thread that reloads and a thread that reads
InitConc ==
    /\ store = FullStore
    /\ cache = KBData(_read_files(FullStore), 1) /\ gen = 1 /\ result = NoResult
    /\ changes = MaxStoreChanges /\ mutations = 0 /\ pc = "idle" /\ rd = ReaderIdle
    /\ ValidatorParked /\ ServicesParked

NextConc ==
    \/ ReloadClear \/ ReloadLoad \/ StoreEdit
    \/ IsLoaded \/ GkvTest \/ GkvVersion \/ GkvChecksum \/ GkvFiles

SpecConc == InitConc /\ [][NextConc]_vars

-----------------------------------------------------------------------------
(* The report handed to the client (api/lessons.py) *)

\* `c.message or <a text naming the check>`
MessageOr(c) == [message |-> c.error, named |-> IF c.error = "" THEN c.name ELSE ""]

ValidationCheck(name, status, grade, details) ==
    [name |-> name, status |-> status, grade |-> grade, details |-> details]

\* a conversion that hands the internal statuses on as they are
convert_keeping_status(internal, grade) ==
    [passed |-> internal.passed,
     checks |-> [i \in 1..Len(internal.checks) |->
                    ValidationCheck(internal.checks[i].name, internal.checks[i].status,
                                    grade, internal.checks[i].details)],
     warnings |-> <<>>,
     errors |-> [i \in 1..Len(internal.errors) |-> MessageOr(internal.checks[i])],
     overall_score |-> internal.overall_score]

_convert_internal_report_to_schema(internal, grade) ==
    LET cs == internal.checks
        warned == SelectSeq(cs, LAMBDA c : c.status = "warning")
        failures == SelectSeq(cs, LAMBDA c : c.status = "failed")
    IN [passed |-> internal.passed,
        checks |-> [i \in 1..Len(cs) |->
                       ValidationCheck(cs[i].name,
                                       IF cs[i].status = "warning" THEN "passed"
                                       ELSE cs[i].status,
                                       grade, cs[i].details)],
        warnings |-> [i \in 1..Len(warned) |->
                         [type |-> warned[i].name, message |-> MessageOr(warned[i]),
                          severity |-> "low"]],
        errors |-> [i \in 1..Len(failures) |-> MessageOr(failures[i])],
        overall_score |-> internal.overall_score]

-----------------------------------------------------------------------------
(* The orchestrator's calls of the generation service (orchestrator.py).    *)
(* What the service does on one call is the environment's choice.           *)

_MAX_RETRIES == 3

_BACKOFF_BASE_SECONDS == 1

\* LessonGenerationError(message, attempt); `attempt` defaults to 1
LessonGenerationError(msg, cause, n) ==
    [type |-> "LessonGenerationError", msg |-> msg, cause |-> cause, attempt |-> n]

\* an exception of another class
OtherError(type, msg) == [type |-> type, msg |-> msg, cause |-> "", attempt |-> 0]

\* the text of a response: what json.loads makes of it, and its wrapping
RawText(json, fenced) == [json |-> json, fenced |-> fenced]

\* what one call of client.messages.create can do: raise, or answer a message
\* whose first text block is `text` ("" when there is none)
ServiceAnswers ==
    {[raises |-> "", text |-> RawText(j, f)] :
        j \in {"object", "array", "invalid"}, f \in BOOLEAN}
    \cup {[raises |-> "", text |-> RawText("", FALSE)]}
    \cup {[raises |-> e, text |-> RawText("", FALSE)] :
            e \in {"APIStatusError", "APIConnectionError",
                   "APIResponseValidationError", "TypeError"}}

Returns(lesson) == [kind |-> "returned", lesson |-> lesson, exc |-> NoExc]

Raises(exc) == [kind |-> "raised", lesson |-> "", exc |-> exc]

\* the two re.sub calls remove a leading and a trailing code fence
StripFences(text) == [text EXCEPT !.fenced = FALSE]

_parse_json_response(raw_text) ==
    LET text == StripFences(raw_text) IN
    IF text.json = "invalid"
    THEN Raises(LessonGenerationError("Claude response is not valid JSON", "", 1))
    ELSE IF text.json # "object"
    THEN Raises(LessonGenerationError("Expected a JSON object from Claude", "", 1))
    ELSE Returns("lesson")

_call_claude(key, answer) ==
    IF ~key
    THEN Raises(LessonGenerationError("ANTHROPIC_API_KEY is not configured", "", 1))
    ELSE IF answer.raises = "APIStatusError"
    THEN Raises(LessonGenerationError("Claude API status error", "", 1))
    ELSE IF answer.raises = "APIConnectionError"
    THEN Raises(LessonGenerationError("Claude API connection error", "", 1))
    ELSE IF answer.raises # ""
    THEN Raises(OtherError(answer.raises, answer.raises))
    ELSE IF answer.text.json = ""
    THEN Raises(LessonGenerationError("Claude returned an empty response", "", 1))
    ELSE _parse_json_response(answer.text)

\* except (LessonGenerationError, anthropic.APIError)
Retryable(exc) ==
    exc.type \in {"LessonGenerationError", "APIStatusError", "APIConnectionError",
                  "APIResponseValidationError"}

\* a back-off that starts at twice the base
BackoffFromTwo(n) == _BACKOFF_BASE_SECONDS * (2 ^ n)

\* wait = _BACKOFF_BASE_SECONDS * (2 ** (attempt - 1))
Backoff(n) == _BACKOFF_BASE_SECONDS * (2 ^ (n - 1))

\* the exception raised with LessonGenerationError's default attempt
ExhaustedDefaultAttempt(last) ==
    LessonGenerationError("Lesson generation failed after attempts",
                          IF last = NoExc THEN "Unknown error" ELSE last.msg, 1)

\* the exception raised once the loop is left
Exhausted(last) ==
    LessonGenerationError("Lesson generation failed after attempts",
                          IF last = NoExc THEN "Unknown error" ELSE last.msg,
                          _MAX_RETRIES)

Attempted(n, answer) == [kind |-> "attempt", n |-> n, answer |-> answer, wait |-> 0]

Slept(n, wait) ==
    [kind |-> "sleep", n |-> n, answer |-> [raises |-> "", text |-> RawText("", FALSE)],
     wait |-> wait]

\* _call_claude_with_retry(prompt) is entered: last_exc = None, attempt = 1
StartRetry ==
    /\ opc = "idle"
    /\ attempt' = 1 /\ last_exc' = NoExc /\ opc' = "try"
    /\ UNCHANGED <<api_key, io, generated, vvars, kvars, avars>>

\* one pass of the loop body up to its await: the call returns the lesson,
\* or fails and the loop sleeps, or fails for the last time and the loop is left
CallClaude ==
    /\ opc = "try"
    /\ \E answer \in ServiceAnswers :
        LET r == _call_claude(api_key, answer) IN
        /\ io' = Append(io, Attempted(attempt, answer))
        /\ IF r.kind = "returned"
           THEN generated' = r /\ opc' = "done" /\ UNCHANGED last_exc
           ELSE IF ~Retryable(r.exc)
           THEN generated' = r /\ opc' = "done" /\ UNCHANGED last_exc
           ELSE /\ last_exc' = r.exc
                /\ IF attempt < _MAX_RETRIES
                   THEN opc' = "sleep" /\ UNCHANGED generated
                   ELSE opc' = "done" /\ generated' = Raises(Exhausted(r.exc))
    /\ UNCHANGED <<api_key, attempt, vvars, kvars, avars>>

\* await asyncio.sleep(wait) ends and the loop goes on to the next attempt
Sleep ==
    /\ opc = "sleep"
    /\ io' = Append(io, Slept(attempt, Backoff(attempt)))
    /\ attempt' = attempt + 1
    /\ opc' = "try"
    /\ UNCHANGED <<api_key, last_exc, generated, vvars, kvars, avars>>

InitRetry ==
    /\ api_key \in BOOLEAN
    /\ attempt = 0 /\ last_exc = NoExc /\ io = <<>> /\ opc = "idle"
    /\ generated = NoOutcome
    /\ ValidatorParked /\ LoaderParked /\ ApiParked

NextRetry == StartRetry \/ CallClaude \/ Sleep

SpecRetry == InitRetry /\ [][NextRetry]_vars

-----------------------------------------------------------------------------
(* POST /lessons/generate and GET /lessons/{id}/download (api/lessons.py),  *)
(* each served with a session of its own from get_async_db (database.py).   *)
(* Requests are served one after the other; the database does not fail.     *)

\* requests a run may create
MaxRequests == 2

\* the lessons the orchestrator hands back, for the topics requested: a
\* topic gives the grade code, the exclusions and the narrative
PipelineCalls ==
    {Call(LessonId(0, 1, 1, 1, q), t[1], t[2], t[3], 1) :
        q \in {1, 2, 4},
        t \in {<<"3", 1, 1>>, <<"3", 3, 3>>, <<"5", 1, 1>>, <<"K", 1, 1>>}}

RequestRow(id, status) == [id |-> id, status |-> status]

\* GeneratedLesson(request_id, lesson_content_docx, lesson_metadata, validation_report)
LessonRow(id, docx, metadata, schema) ==
    [request_id |-> id, docx |-> docx, lesson_metadata |-> metadata,
     validation_report |-> schema]

AuditRow(id, event_type) == [request_id |-> id, event_type |-> event_type]

\* the session after gen_request.status = status
WithStatus(rows, id, status) == [rows EXCEPT !.requests = {RequestRow(id, status)}]

\* a gate that lets every report through
lets_through(internal) == TRUE

\* `if not internal_report.passed` decides between step 5 and steps 6-10
report_passed(internal) == internal.passed

\* the catch-all handler: status failed, an audit entry, flush, HTTP 500
generation_error ==
    /\ session' = [WithStatus(session, request_id, "failed") EXCEPT
                      !.audit = @ \cup {AuditRow(request_id, "generation_error")}]
    /\ response' = Response("generate", 500, request_id, "failed", "")
    /\ apc' = "raised"

\* step 5: the request is failed, the lesson is kept without a DOCX, HTTP 422
validation_failed(schema) ==
    /\ session' = [WithStatus(session, request_id, "failed") EXCEPT
                      !.lessons = @ \cup {LessonRow(request_id, "", lesson_dict, schema)},
                      !.audit = @ \cup {AuditRow(request_id, "validation_failed")}]
    /\ response' = Response("generate", 422, request_id, "failed", "")
    /\ apc' = "raised"

\* steps 6-10: the DOCX is rendered and stored, the request completed, HTTP 200
lesson_generated(schema) ==
    /\ session' = [WithStatus(session, request_id, "completed") EXCEPT
                      !.lessons = @ \cup {LessonRow(request_id, "docx", lesson_dict, schema)},
                      !.audit = @ \cup {AuditRow(request_id, "lesson_generated")}]
    /\ response' = Response("generate", 200, request_id, "completed", "url")
    /\ apc' = "returned"

\* steps 1 and 2: the topic is looked up and the GenerationRequest is created
\* and flushed; without the topic the request ends at once with HTTP 404
CreateRequest ==
    /\ apc = "idle" /\ request_id < MaxRequests
    /\ \E topic \in BOOLEAN :
          IF ~topic
          THEN /\ response' = Response("generate", 404, 0, "", "")
               /\ UNCHANGED <<apc, request_id, lesson_dict, session>>
          ELSE /\ request_id' = request_id + 1
               /\ session' = WithStatus(NoRows, request_id + 1, "processing")
               /\ lesson_dict' = NoLesson
               /\ apc' = "orchestrating"
               /\ UNCHANGED response
    /\ UNCHANGED <<db, delivered, vvars, kvars, ovars>>

\* step 3: the orchestrator returns a lesson, or raises
CallOrchestrator ==
    /\ apc = "orchestrating"
    /\ \/ \E call \in PipelineCalls :
             /\ lesson_dict' = call /\ apc' = "validating"
             /\ UNCHANGED <<session, response>>
       \/ generation_error /\ UNCHANGED lesson_dict
       \* ImportError: HTTP 503 passes the handlers as it is
       \/ /\ response' = Response("generate", 503, request_id, "", "")
          /\ apc' = "raised"
          /\ UNCHANGED <<session, lesson_dict>>
    /\ UNCHANGED <<request_id, db, delivered, vvars, kvars, ovars>>

\* steps 4 to 10 for the report validate gave
Respond(res) ==
    IF res.raised THEN generation_error
    ELSE IF ~report_passed(res.report)
    THEN validation_failed(
            _convert_internal_report_to_schema(res.report, lesson_dict.grade))
    ELSE \/ lesson_generated(
               _convert_internal_report_to_schema(res.report, lesson_dict.grade))
         \* _docx_generator.generate raises
         \/ generation_error

ValidateLesson ==
    /\ apc = "validating"
    /\ \E res \in {validate(Args(lesson_dict))} : Respond(res)
    /\ UNCHANGED <<request_id, lesson_dict, db, delivered, vvars, kvars, ovars>>

\* get_async_db after its yield: commit when the handler returned, rollback
\* when it raised; then the response goes out
CloseSession ==
    /\ apc \in {"returned", "raised"}
    /\ db' = IF apc = "returned"
             THEN [requests |-> db.requests \cup session.requests,
                   lessons |-> db.lessons \cup session.lessons,
                   audit |-> db.audit \cup session.audit]
             ELSE db
    /\ session' = NoRows
    /\ delivered' = Append(delivered, response)
    /\ apc' = "idle"
    /\ UNCHANGED <<request_id, lesson_dict, response, vvars, kvars, ovars>>

download_lesson(rows, id) ==
    LET found == {l \in rows.lessons : l.request_id = id} IN
    IF found = {} THEN Response("download", 404, id, "", "")
    ELSE IF \E l \in found : l.docx = "" THEN Response("download", 404, id, "", "")
    ELSE Response("download", 200, id, "", "docx")

\* GET /lessons/{request_id}/download
Download ==
    /\ apc = "idle"
    /\ \E id \in 1..MaxRequests : response' = download_lesson(db, id)
    /\ UNCHANGED <<apc, request_id, lesson_dict, session, db, delivered,
                   vvars, kvars, ovars>>

InitApi == ApiParked /\ ValidatorParked /\ LoaderParked /\ OrchestratorParked

NextApi == CreateRequest \/ CallOrchestrator \/ ValidateLesson \/ CloseSession \/ Download

SpecApi == InitApi /\ [][NextApi]_vars

-----------------------------------------------------------------------------
(* Properties of validate and of ValidationReport *)

\* what the try statement around check i leaves in the report
Recorded(i, r) ==
    IF r.raised THEN CheckResult(CheckNames[i], "failed", NoDetails, r.error)
    ELSE CheckResult(r.name, r.status, r.details, "")

Threw(i) == report.checks[i].error /= ""

\* C1: validate returns a report and raises nothing, whatever the lesson, the
\* grade and the optional arguments; a check that throws is recorded as a
\* failed CheckResult under that check's name with the exception text, and
\* every check after it is still run and recorded
C1_ValidateIsTotal ==
    lastOp = "validate" =>
        /\ outcome = "returned"
        /\ Len(report.checks) = Len(CheckNames)
        /\ \A i \in 1..Len(CheckNames) :
              report.checks[i] = Recorded(i, CallCheck(CheckNames[i], Args(input)))

\* a lesson that is no dict or holds malformed items: a check threw, the throw
\* is recorded as failed, and a later check ran and passed
C1_Witness ==
    /\ lastOp = "validate"
    /\ outcome = "returned"
    /\ \E i \in 1..7 :
          /\ Threw(i)
          /\ report.checks[i].status = "failed"
          /\ report.checks[i].name = CheckNames[i]
          /\ \E j \in (i + 1)..8 : report.checks[j].status = "passed"

HasFailed(rep) == \E i \in 1..Len(rep.checks) : rep.checks[i].status = "failed"

\* C2: in every report, built by add_check calls or returned by validate,
\* passed is false exactly when some recorded CheckResult is failed, and an
\* add_check of a warning or passed check leaves passed as it was
C2_PassedIffNoneFailed ==
    /\ [](report.passed <=> ~HasFailed(report))
    /\ [][(lastOp' = "add_check"
           /\ report'.checks[Len(report'.checks)].status \in {"warning", "passed"})
          => report'.passed = report.passed]_vars

\* a warning was just added to a report without failed checks, and passed is
\* still true
C2_Witness ==
    /\ lastOp = "add_check"
    /\ Len(report.checks) >= 2
    /\ report.checks[Len(report.checks)].status = "warning"
    /\ ~HasFailed(report)
    /\ report.passed

\* the report's score is current: no add_check since it was computed
ScoreComputed == lastOp \in {"validate", "compute_score"}

\* C3: after compute_score the score, in hundredths, is the hundredth nearest
\* to (passed + warning / 2) / total, is 0 for an empty check list and lies
\* between 0 and 100; 6 passed, 1 warning and 1 failed give 81 and passed false
C3_Score ==
    ScoreComputed =>
        LET total == Len(report.checks)
            halves == 2 * CountStatus(report.checks, "passed")
                      + CountStatus(report.checks, "warning")
            off == report.overall_score * 2 * total - 100 * halves
        IN /\ report.overall_score \in 0..100
           /\ total = 0 => report.overall_score = 0
           /\ total > 0 => (2 * off <= 2 * total /\ -2 * off <= 2 * total)
           /\ (total = 8 /\ halves = 13 /\ CountStatus(report.checks, "failed") = 1)
                 => (report.overall_score = 81 /\ ~report.passed)

\* compute_score ran on 2 passed checks and 1 failed one: 0.67, rounded up
C3_Witness ==
    /\ lastOp = "compute_score"
    /\ Len(report.checks) = 3
    /\ CountStatus(report.checks, "passed") = 2
    /\ CountStatus(report.checks, "failed") = 1
    /\ report.overall_score = 67

FixedOrder == <<"language_ceiling", "blooms_distribution", "interaction_type",
                "definition_alignment", "story_integration", "audio_pacing",
                "feedback_structure", "content_isolation">>

\* C4: a report returned by validate holds exactly eight CheckResults, named
\* language_ceiling, blooms_distribution, interaction_type,
\* definition_alignment, story_integration, audio_pacing, feedback_structure,
\* content_isolation in this order, whatever each check did
C4_EightChecksInOrder ==
    lastOp = "validate" =>
        /\ Len(report.checks) = 8
        /\ \A i \in 1..8 : report.checks[i].name = FixedOrder[i]

\* a returned report in which checks passed, warned, failed and threw
C4_Witness ==
    /\ lastOp = "validate"
    /\ Len(report.checks) = 8
    /\ \E i \in 1..8 : Threw(i)
    /\ \E i \in 1..8 : report.checks[i].status = "failed" /\ ~Threw(i)
    /\ \E i \in 1..8 : report.checks[i].status = "warning"
    /\ \E i \in 1..8 : report.checks[i].status = "passed"

-----------------------------------------------------------------------------
(* Properties of KBLoader *)

\* C5: a load() on a loader that holds a snapshot returns that snapshot,
\* leaves it as it is, and makes no existence check and no file read,
\* whatever has become of the store since
C5_LoadIsCached ==
    [][(Load /\ cache.loaded) =>
          /\ cache' = cache
          /\ result'.op = "load" /\ result'.exc = ""
          /\ result'.ref = Ref("snapshot", cache.gen, "")
          /\ result'.probes = 0 /\ result'.reads = 0]_vars

\* load() returned the cached snapshot untouched although a required document
\* has been removed from the store since
C5_Witness ==
    /\ result.op = "load" /\ result.exc = ""
    /\ result.probes = 0 /\ result.reads = 0
    /\ cache.loaded /\ result.ref.gen = cache.gen
    /\ \E f \in Required : store[f].state = "absent"
    /\ \A f \in Required : \E i \in 1..Len(cache.files_loaded) : cache.files_loaded[i] = f

\* the required names absent from the store, in the order of the required list
MissingRequired ==
    SelectSeq(<<"language_guidelines.md", "NCERT_Pedagogical_Style_Knowledge.md",
                "digital_interactions.md", "question_bank.md">>,
              LAMBDA f : store[f].state = "absent")

Swap(d, i, j) ==
    [k \in 1..Len(d) |-> IF k = i THEN d[j] ELSE IF k = j THEN d[i] ELSE d[k]]

Reverse(d) == [k \in 1..Len(d) |-> d[Len(d) + 1 - k]]

\* the (name, text) pairs of the readable documents of the store equal those
\* of the snapshot
SameDocuments ==
    {_read_files(store)[i] : i \in 1..Len(_read_files(store))}
        = {cache.raw_content[i] : i \in 1..Len(cache.raw_content)}

\* C9: the checksum of a snapshot does not change when the (name, text) pairs
\* it is computed from are put in another order, and a reload() that loads
\* the same documents gives the checksum the snapshot before it had
C9_ChecksumOrderIndependent ==
    /\ [](cache.loaded =>
             /\ _compute_checksum(Reverse(cache.raw_content)) = cache.checksum
             /\ \A i \in 1..Len(cache.raw_content) :
                   \A j \in (i + 1)..Len(cache.raw_content) :
                       _compute_checksum(Swap(cache.raw_content, i, j)) = cache.checksum)
    /\ [][(cache.loaded /\ result'.exc = "" /\ SameDocuments /\ Reload) =>
             (cache'.loaded /\ cache'.checksum = cache.checksum)]_vars

\* load() then reload() with the store untouched: a second snapshot over the
\* same six documents
C9_Witness ==
    /\ result.op = "reload" /\ result.exc = ""
    /\ cache.loaded /\ cache.gen = 2
    /\ changes = MaxStoreChanges
    /\ Len(cache.raw_content) = 6
    /\ result.value = cache.checksum

GradeLookups == {"get_language_ceiling", "get_bloom_distribution",
                 "get_allowed_interactions"}

\* the table a grade lookup reads, and the grade it falls back to
TableOf(op) ==
    CASE op = "get_language_ceiling" -> cache.language_ceilings
      [] op = "get_bloom_distribution" -> cache.bloom_distributions
      [] op = "get_allowed_interactions" -> cache.allowed_interactions

FallbackOf(op) == IF op = "get_bloom_distribution" THEN "3" ELSE "5"

\* C8: a grade lookup with a grade code that is not in the parsed table does
\* not raise and returns the entry of the fallback grade: "5" for the language
\* ceiling and the allowed interactions, "3" for the distribution
C8_UnknownGradeFallsBack ==
    (/\ result.op \in GradeLookups
     /\ cache.loaded
     /\ result.arg \notin DOMAIN TableOf(result.op))
    => (/\ result.exc = ""
        /\ result.value = TableOf(result.op)[FallbackOf(result.op)])

\* what the lookups return for every grade, and get_kb_version()
LookupView(kb) ==
    [language_ceilings |-> kb.language_ceilings,
     bloom_distributions |-> kb.bloom_distributions,
     allowed_interactions |-> kb.allowed_interactions,
     version |-> VersionInfo(kb.version, kb.checksum, kb.files_loaded)]

\* C10: while a snapshot is held, no step other than a reload() changes what
\* the lookups return: no loader operation, and no mutation by a caller of a
\* value a lookup returned
C10_SnapshotImmutable ==
    [][(cache.loaded /\ ~Reload) => LookupView(cache)' = LookupView(cache)]_vars

\* C7: a reader running while reload() runs sees one whole snapshot, the old
\* or the new one: is_loaded() is true, get_kb_version() does not raise, does
\* not report not_loaded, and takes its three fields from one snapshot
C7_ReadersSeeOneSnapshot ==
    result.op \in {"is_loaded", "get_kb_version"} =>
        /\ result.exc = ""
        /\ 0 \notin result.seen
        /\ Cardinality(result.seen) = 1

-----------------------------------------------------------------------------
(* Properties of the eight checks, read off the report validate returns *)

\* the flattened text of the lesson validate was called with
FlatText == _extract_all_text(Args(input).lesson_data)

\* the CheckResult recorded under a name
CheckNamed(name) ==
    report.checks[CHOOSE i \in 1..Len(report.checks) : report.checks[i].name = name]

StatusOf(name) == CheckNamed(name).status

\* the grade whose table entries apply: the validator's tables fall back to
\* grade 3 for a grade code they do not hold
TableGrade == IF Args(input).grade \in Grades THEN Args(input).grade ELSE "3"

\* the words of a sentence: its tokens holding a letter or a digit
WordsIn(sentence) == Cardinality({i \in 1..Len(sentence) : sentence[i].core # ""})

\* the sentences of the flattened text, markers stripped, that are too long
OverLong ==
    LET ss == SplitSentences(StripMarkers(FlatText))
    IN {k \in 1..Len(ss) : WordsIn(ss[k]) > LANGUAGE_CEILINGS[TableGrade].max_sentence_length}

\* the distinct words marked [Emphasis: word] in the flattened text
MarkedWords ==
    LET s == SelectSeq(FlatText, LAMBDA tk : tk # Pad)
    IN {w \in {s[i] : i \in 1..Len(s)} :
            \E i \in 1..(Len(s) - 1) : s[i] = EmphOpen /\ s[i + 1] = w /\ IsEmphClose(w)}

\* C11: the language-ceiling check is failed exactly when some sentence of the
\* flattened text, the three pacing markers stripped, has more words than the
\* grade's sentence ceiling, or the distinct emphasis-marked words outnumber
\* the grade's vocabulary ceiling; otherwise it is passed.  With an over-long
\* sentence the details show between one and five violations and
\* violations_count is the number of all over-long sentences
C11_LanguageCeiling ==
    lastOp = "validate" =>
        LET c == CheckNamed("language_ceiling")
            vocab == Cardinality(MarkedWords) > LANGUAGE_CEILINGS[TableGrade].new_vocab_max
        IN /\ c.status = "failed" <=> (OverLong # {} \/ vocab)
           /\ c.status \in {"failed", "passed"}
           /\ c.details.count = Cardinality(OverLong)
           /\ OverLong # {} => c.details.shown \in 1..5

\* six over-long sentences: five are shown and six are counted
C11_Witness ==
    /\ lastOp = "validate"
    /\ StatusOf("language_ceiling") = "failed"
    /\ CheckNamed("language_ceiling").details.count = 6
    /\ CheckNamed("language_ceiling").details.shown = 5

\* the quiz of the lesson, and its items when it is a list
QuizValue ==
    IF Args(input).lesson_data.t = "dict"
    THEN Get(Args(input).lesson_data, "quick_quiz", EmptyList) ELSE EmptyList

QuizItems == IF QuizValue.t = "list" THEN Items(QuizValue) ELSE <<>>

\* the level 1..5 a quiz item or an activity is at, 0 when it is at none
ItemLevel(q) ==
    IF q.t = "dict" /\ Get(q, "bloom_level", EmptyStr).t = "str"
    THEN LevelOf(BloomOf(q)) ELSE 0

\* the number of quiz items at level k
ItemsAt(k) == Cardinality({i \in 1..Len(QuizItems) : ItemLevel(QuizItems[i]) = k})

Max(a, b) == IF a > b THEN a ELSE b

\* one of the first three items is not at L1/L2, or one of the last three is
\* not at L3/L4/L5
OrderViolated ==
    LET n == Len(QuizItems)
    IN \/ \E i \in 1..Min(3, n) : ItemLevel(QuizItems[i]) \notin {1, 2}
       \/ \E i \in Max(1, n - 2)..n : ItemLevel(QuizItems[i]) \notin {3, 4, 5}

\* C12: the distribution check is failed whenever the quiz is absent or empty,
\* whenever the number of quiz items at some level differs from the grade's
\* required number, and whenever one of the first three quiz items is not at
\* L1/L2 or one of the last three quiz items is not at L3/L4/L5; it is passed
\* only when none of these holds
C12_DistributionAndOrder ==
    lastOp = "validate" =>
        /\ StatusOf("blooms_distribution") \in {"failed", "passed"}
        /\ StatusOf("blooms_distribution") = "passed" =>
              /\ Truthy(QuizValue)
              /\ \A k \in 1..5 : ItemsAt(k) = BLOOM_DISTRIBUTION[TableGrade][k]
              /\ ~OrderViolated

\* the interactive activity of the lesson
ActivityValue ==
    IF Args(input).lesson_data.t = "dict"
    THEN Get(Args(input).lesson_data, "interactive_activity", EmptyDict) ELSE EmptyDict

\* the activity declares a type that, letter case aside, is one of the types
\* allowed for the grade
TypeAllowed ==
    /\ ActivityValue.t = "dict"
    /\ Get(ActivityValue, "type", EmptyStr).t = "str"
    /\ \E i \in 1..Len(ALLOWED_INTERACTIONS[TableGrade]) :
          Lower(ALLOWED_INTERACTIONS[TableGrade][i]) = Lower(Get(ActivityValue, "type", EmptyStr).s)

\* C13: the interaction-type check is passed exactly when the activity is
\* present and not empty, its declared type compared without regard to letter
\* case is in the grade's allowed set, and its level is L3 or L4; it is failed
\* in every other case
C13_InteractionType ==
    lastOp = "validate" =>
        /\ StatusOf("interaction_type") \in {"failed", "passed"}
        /\ StatusOf("interaction_type") = "passed" <=>
              (Truthy(ActivityValue) /\ TypeAllowed /\ ItemLevel(ActivityValue) \in {3, 4})

\* an activity passed whose type is written in another letter case than the
\* allowed list has it
C13_Witness ==
    /\ lastOp = "validate"
    /\ StatusOf("interaction_type") = "passed"
    /\ \A i \in 1..Len(ALLOWED_INTERACTIONS[TableGrade]) :
          ALLOWED_INTERACTIONS[TableGrade][i] # Get(ActivityValue, "type", EmptyStr).s

\* the terms of kb_definitions, none when the argument is None or empty
SuppliedTerms ==
    IF Args(input).kb_definitions.given THEN Args(input).kb_definitions.v ELSE <<>>

\* the text occurs in the flattened lesson text, letter case aside
InLesson(text) == Occurs(Lower(text), Lower(FlatText))

\* some check other than the named one is failed
FailedBeside(name) ==
    \E i \in 1..Len(report.checks) :
        report.checks[i].name # name /\ report.checks[i].status = "failed"

\* C14: in a report returned by validate the definition-alignment check is
\* warning when no reference definitions are supplied or a supplied term is
\* missing from the flattened lesson text (substring, letter case aside), and
\* passed when every supplied term is present; it is never failed, so passed
\* of the report is false only if another check failed
C14_DefinitionCheckIsSoft ==
    lastOp = "validate" =>
        LET missing == \E i \in 1..Len(SuppliedTerms) : ~InLesson(SuppliedTerms[i])
        IN /\ (SuppliedTerms = <<>> \/ missing) => StatusOf("definition_alignment") = "warning"
           /\ (SuppliedTerms # <<>> /\ ~missing) => StatusOf("definition_alignment") = "passed"
           /\ StatusOf("definition_alignment") # "failed"
           /\ ~report.passed => FailedBeside("definition_alignment")

\* a supplied term is missing, the check warns and the report still passes
C14_Witness ==
    /\ lastOp = "validate"
    /\ StatusOf("definition_alignment") = "warning"
    /\ CheckNamed("definition_alignment").details.found # <<>>
    /\ report.passed

\* the narrative supplied, empty when the argument is None or ""
SuppliedNarrative ==
    IF Args(input).context_narrative.given THEN Args(input).context_narrative.v ELSE <<>>

\* a section of the lesson; a lesson that is no dict has no sections
Section(key, default) ==
    IF Args(input).lesson_data.t = "dict"
    THEN Get(Args(input).lesson_data, key, default) ELSE default

\* the text of the opening section: its string fields, or its text when it is
\* no dict
OpeningText ==
    LET opening == Section("opening_narration", EmptyDict)
        fields == SelectSeq(Items(opening), LAMBDA v : v.t = "str")
    IN IF opening.t = "dict" THEN Concat([i \in 1..Len(fields) |-> fields[i].s])
       ELSE StrOf(opening)

\* the teacher_explains texts of the per-concept explanations
ExplanationText ==
    LET explanations == Section("narrated_explanation", EmptyList)
        exps == IF explanations.t = "list"
                THEN SelectSeq(Items(explanations), LAMBDA e : e.t = "dict") ELSE <<>>
    IN Concat([i \in 1..Len(exps) |-> StrOf(Get(exps[i], "teacher_explains", EmptyStr))])

\* a narrative word of more than three characters occurs in the text
NarrativeWordIn(text) ==
    \E i \in 1..Len(SuppliedNarrative) :
        /\ SuppliedNarrative[i].core \notin ShortCores
        /\ \E j \in 1..Len(text) : CoreContains(text[j].core, SuppliedNarrative[i].core)

\* C15: in a report returned by validate the narrative-integration check is
\* passed when no narrative is supplied, passed when a narrative word of more
\* than three characters occurs in the opening section or in a per-concept
\* explanation text, and warning when a narrative is supplied and nothing
\* matches; it is never failed
C15_NarrativeCheckIsSoft ==
    lastOp = "validate" =>
        LET matches == NarrativeWordIn(OpeningText) \/ NarrativeWordIn(ExplanationText)
        IN /\ SuppliedNarrative = <<>> => StatusOf("story_integration") = "passed"
           /\ (SuppliedNarrative # <<>> /\ matches) => StatusOf("story_integration") = "passed"
           /\ (SuppliedNarrative # <<>> /\ ~matches) => StatusOf("story_integration") = "warning"
           /\ StatusOf("story_integration") # "failed"

\* the flattened lesson text holds the marker
HasMarker(marker) ==
    LET text == FlatText IN \E i \in 1..Len(text) : text[i] = marker

\* C16: the pacing check is passed exactly when the flattened lesson text
\* holds at least one [Beat] and at least one [Pause]; when either is missing
\* it is failed, never warning, and passed of the report is false
C16_PacingIsHard ==
    lastOp = "validate" =>
        /\ StatusOf("audio_pacing") = "passed" <=> (HasMarker(BeatTok) /\ HasMarker(PauseTok))
        /\ StatusOf("audio_pacing") \in {"passed", "failed"}
        /\ StatusOf("audio_pacing") = "failed" => ~report.passed

\* a lesson with a [Beat] and no [Pause]: pacing is the only failed check
C16_Witness ==
    /\ lastOp = "validate"
    /\ HasMarker(BeatTok)
    /\ StatusOf("audio_pacing") = "failed"
    /\ ~FailedBeside("audio_pacing")
    /\ ~report.passed

\* a string with every [Beat] and [Pause] removed: the blanks around a marker
\* stay, and a string that was one marker becomes empty
WithoutPacing(s) ==
    IF Len(s) = 1 /\ s[1] \in {BeatTok, PauseTok} THEN <<>>
    ELSE [i \in 1..Len(s) |-> IF s[i] \in {BeatTok, PauseTok} THEN Pad ELSE s[i]]

RECURSIVE StripPacing(_)
\* a lesson with the two markers removed from all of its string leaves
StripPacing(n) ==
    CASE n.t = "str" -> Str(WithoutPacing(n.s))
      [] n.t \in {"dict", "list"} ->
            [n EXCEPT !.kids = [i \in 1..Len(n.kids) |->
                                    KV(n.kids[i].k, StripPacing(n.kids[i].v))]]
      [] OTHER -> n

\* the report validate returns for the same call on the stripped lesson
StrippedReport ==
    validate([Args(input) EXCEPT !.lesson_data = StripPacing(@)]).report

AllChecksPass == \A i \in 1..Len(report.checks) : report.checks[i].status = "passed"

\* C17: for a lesson on which all eight checks pass, removing every [Beat] and
\* [Pause] from its string leaves turns the pacing check from passed to failed
\* and leaves the status of each of the other seven checks as it was, grade,
\* exclusions, narrative and definitions being the same
C17_StrippingMarkersFlipsPacingOnly ==
    (lastOp = "validate" /\ AllChecksPass) =>
        \A i \in 1..Len(CheckNames) :
            StrippedReport.checks[i].status =
                IF CheckNames[i] = "audio_pacing" THEN "failed" ELSE report.checks[i].status

\* the activity carries the hint under the key, and it is not empty
HintPresent(key) ==
    ActivityValue.t = "dict" /\ Truthy(Get(ActivityValue, key, EmptyStr))

\* the quiz item carries the feedback string under the key, with at least
\* four whitespace-separated words
FeedbackPresent(q, key) ==
    /\ q.t = "dict"
    /\ Get(q, key, EmptyStr).t = "str"
    /\ Cardinality({i \in 1..Len(Get(q, key, EmptyStr).s) : Get(q, key, EmptyStr).s[i] # Pad}) >= 4

\* C18: the feedback-structure check is passed exactly when the activity has
\* non-empty feedback_hint_1, feedback_hint_2 and feedback_reveal and every
\* quiz item has both feedback_correct and feedback_incorrect with at least
\* four words each; a missing hint or a missing or shorter feedback string
\* makes it failed
C18_FeedbackStructure ==
    lastOp = "validate" =>
        /\ StatusOf("feedback_structure") \in {"passed", "failed"}
        /\ StatusOf("feedback_structure") = "passed" <=>
              /\ HintPresent("feedback_hint_1")
              /\ HintPresent("feedback_hint_2")
              /\ HintPresent("feedback_reveal")
              /\ \A i \in 1..Len(QuizItems) :
                    /\ FeedbackPresent(QuizItems[i], "feedback_correct")
                    /\ FeedbackPresent(QuizItems[i], "feedback_incorrect")

\* the excluded concepts supplied, none when the argument is None
SuppliedExclusions ==
    IF Args(input).exclusions.given THEN Args(input).exclusions.v ELSE <<>>

\* the excluded concepts that occur in the flattened lesson text, in the order
\* they were supplied
OccurringExclusions == SelectSeq(SuppliedExclusions, InLesson)

\* C19: the content-isolation check is failed exactly when some excluded
\* concept occurs in the flattened lesson text as a substring, letter case
\* aside; its details list exactly the excluded concepts that occur and count
\* them; with no exclusions or no occurrence it is passed with a count of 0
C19_ContentIsolation ==
    lastOp = "validate" =>
        LET c == CheckNamed("content_isolation")
        IN /\ c.status = "failed" <=> (\E i \in 1..Len(SuppliedExclusions) :
                                          InLesson(SuppliedExclusions[i]))
           /\ c.status \in {"failed", "passed"}
           /\ c.details.found = OccurringExclusions
           /\ c.details.count = Len(c.details.found)
           /\ c.status = "passed" => c.details.count = 0

\* two concepts excluded, one of them occurs: the check fails and lists it alone
C19_Witness ==
    /\ lastOp = "validate"
    /\ StatusOf("content_isolation") = "failed"
    /\ Len(SuppliedExclusions) = 2
    /\ CheckNamed("content_isolation").details.count = 1

\* the lesson is a dict that does not hold the section
SectionAbsent(key) ==
    Args(input).lesson_data.t = "dict" /\ ~HasKey(Args(input).lesson_data, key)

\* the lesson without the section, and with the section present and empty
Without(lesson, key) == Dict(SelectSeq(lesson.kids, LAMBDA kv : kv.k # key))
WithEmpty(lesson, key) == Dict(Without(lesson, key).kids \o <<KV(key, EmptyStr)>>)

\* the status validate records for the named check on another lesson
StatusOn(name, lesson) ==
    LET r == CallCheck(name, [Args(input) EXCEPT !.lesson_data = lesson])
    IN IF r.raised THEN "failed" ELSE r.status

AllHintsPresent ==
    HintPresent("feedback_hint_1") /\ HintPresent("feedback_hint_2")
    /\ HintPresent("feedback_reveal")

\* C20: an absent section is nothing to check: in a report returned by
\* validate no check is failed because the quiz list, the interactive
\* activity, the opening narration or the per-concept explanations are missing
\* from the lesson
C20_AbsentSectionsAreNotErrors ==
    lastOp = "validate" =>
        /\ SectionAbsent("quick_quiz") => StatusOf("blooms_distribution") # "failed"
        /\ SectionAbsent("interactive_activity") => StatusOf("interaction_type") # "failed"
        /\ (SectionAbsent("quick_quiz") /\ AllHintsPresent) =>
              StatusOf("feedback_structure") # "failed"
        /\ (SectionAbsent("opening_narration") \/ SectionAbsent("narrated_explanation")) =>
              StatusOf("story_integration") # "failed"

\* the checks that read the flattened text only
TextChecks == {"language_ceiling", "definition_alignment", "audio_pacing", "content_isolation"}

\* C20 as amended: an absent opening narration, per-concept explanations,
\* discussion or conclusion is nothing to check: the narrative check is not
\* failed without the opening or the explanations, the checks that read the
\* quiz and the activity do not depend on the discussion or the conclusion,
\* and the checks of the flattened text take a missing conclusion or
\* discussion as an empty one.  A missing quiz list fails the distribution
\* check, and a missing activity fails the interaction-type and the
\* feedback-structure check
C20_AbsentTextSectionsAreNotErrors ==
    (lastOp = "validate" /\ Args(input).lesson_data.t = "dict") =>
        /\ (SectionAbsent("opening_narration") \/ SectionAbsent("narrated_explanation")) =>
              StatusOf("story_integration") # "failed"
        /\ \A key \in {"conclusion", "discussion"} :
              /\ \A name \in {n \in {CheckNames[i] : i \in 1..8} : n \notin TextChecks} :
                    StatusOn(name, Without(Args(input).lesson_data, key)) = StatusOf(name)
              /\ \A name \in TextChecks :
                    StatusOn(name, Without(Args(input).lesson_data, key))
                        = StatusOn(name, WithEmpty(Args(input).lesson_data, key))
        /\ SectionAbsent("quick_quiz") => StatusOf("blooms_distribution") = "failed"
        /\ SectionAbsent("interactive_activity") =>
              /\ StatusOf("interaction_type") = "failed"
              /\ StatusOf("feedback_structure") = "failed"
        /\ (SectionAbsent("quick_quiz") /\ AllHintsPresent) =>
              StatusOf("feedback_structure") = "passed"

\* a lesson without opening and explanations, validated with a narrative: the
\* narrative check warns and the checks of the quiz and the activity pass
C20_Witness ==
    /\ lastOp = "validate"
    /\ SectionAbsent("opening_narration")
    /\ SectionAbsent("narrated_explanation")
    /\ SuppliedNarrative # <<>>
    /\ StatusOf("story_integration") = "warning"
    /\ StatusOf("blooms_distribution") = "passed"
    /\ StatusOf("interaction_type") = "passed"

\* C12 as amended: the distribution check is failed whenever the quiz is
\* absent or empty, whenever the number of quiz items at some level differs
\* from the grade's required number, and whenever one of the first three quiz
\* items is not at L1/L2 or one of the quiz items at positions 8 to 10 is not
\* at L3/L4/L5; it is passed only when none of these holds
C12_DistributionAndPositions ==
    lastOp = "validate" =>
        /\ StatusOf("blooms_distribution") \in {"failed", "passed"}
        /\ StatusOf("blooms_distribution") = "passed" =>
              /\ Truthy(QuizValue)
              /\ \A k \in 1..5 : ItemsAt(k) = BLOOM_DISTRIBUTION[TableGrade][k]
              /\ \A i \in 1..Min(3, Len(QuizItems)) : ItemLevel(QuizItems[i]) \in {1, 2}
              /\ \A i \in 8..Min(10, Len(QuizItems)) : ItemLevel(QuizItems[i]) \in {3, 4, 5}

\* a quiz of eleven items passed although its last item is at no level
C12_Witness ==
    /\ lastOp = "validate"
    /\ StatusOf("blooms_distribution") = "passed"
    /\ Len(QuizItems) = 11
    /\ ItemLevel(QuizItems[11]) = 0


-----------------------------------------------------------------------------
(* Properties of the calls of the generation service *)

\* the positions in io of the attempts, and of the sleeps
Attempts == {i \in 1..Len(io) : io[i].kind = "attempt"}

Sleeps == {i \in 1..Len(io) : io[i].kind = "sleep"}

\* the attempt e handed the lesson back
Succeeded(e) == api_key /\ e.answer.raises = "" /\ e.answer.text.json = "object"

RetryableFault(e) == ~Succeeded(e) /\ e.answer.raises # "TypeError"

\* str() of the exception the attempt e failed with
FaultText(e) ==
    IF ~api_key THEN "ANTHROPIC_API_KEY is not configured"
    ELSE CASE e.answer.raises = "APIStatusError" -> "Claude API status error"
           [] e.answer.raises = "APIConnectionError" -> "Claude API connection error"
           [] e.answer.raises # "" -> e.answer.raises
           [] e.answer.text.json = "" -> "Claude returned an empty response"
           [] e.answer.text.json = "invalid" -> "Claude response is not valid JSON"
           [] OTHER -> "Expected a JSON object from Claude"

\* C22: when three attempts have failed with a retryable fault,
\* _call_claude_with_retry raises LessonGenerationError with attempt = 3 and
\* the text of the third attempt's failure, and returns no lesson.
C22_ExhaustionError ==
    (/\ opc = "done" /\ Cardinality(Attempts) = 3
     /\ \A i \in Attempts : RetryableFault(io[i]))
    => /\ generated.kind = "raised" /\ generated.lesson = ""
       /\ generated.exc.type = "LessonGenerationError"
       /\ generated.exc.attempt = 3
       /\ generated.exc.cause = FaultText(io[Len(io)])

\* three failures, the third of another kind than the first two
C22_Witness ==
    /\ opc = "done" /\ Len(io) = 5 /\ generated.kind = "raised"
    /\ io[1].answer.raises = "APIStatusError"
    /\ io[3].answer.raises = "APIConnectionError"
    /\ io[5].answer.text.json = "invalid"
    /\ generated.exc.attempt = 3


-----------------------------------------------------------------------------
(* Properties of the constraint tables *)

SumOf(l) == l[1] + l[2] + l[3] + l[4] + l[5]

\* the tables of the rule engine, for every grade code
RuleEngineTablesComplete ==
    \A g \in Grades :
        /\ ALLOWED_INTERACTIONS[g] # <<>>
        /\ Len(BLOOM_DISTRIBUTION[g]) = 5 /\ SumOf(BLOOM_DISTRIBUTION[g]) = 10

-----------------------------------------------------------------------------
(* Properties of is_loaded() and get_kb_version() *)

LoadingOps ==
    {"load", "reload", "get_language_ceiling", "get_bloom_distribution",
     "get_allowed_interactions", "get_full_content"}

\* C24: is_loaded() answers whether a snapshot is cached: false on a fresh
\* loader, true after a load(), reload() or lookup that succeeded;
\* get_kb_version() answers {not_loaded, empty checksum, no files} exactly
\* when no snapshot is cached, and never changes the cache.
C24_IsLoadedTracksCache ==
    /\ [](/\ result.op = "is_loaded" => result.value = cache.loaded
          /\ (result.op = "is_loaded" /\ gen = 0) => result.value = FALSE
          /\ (result.op \in LoadingOps /\ result.exc = "") => cache.loaded
          /\ result.op = "get_kb_version" =>
                /\ result.exc = ""
                /\ (result.value = [kb_version |-> "not_loaded", checksum |-> <<>>,
                                    files_loaded |-> <<>>]) <=> ~cache.loaded)
    /\ [][result'.op \in {"get_kb_version", "is_loaded"} =>
             (cache' = cache /\ gen' = gen)]_vars

\* is_loaded() answered false on a loader whose reload() has just failed
\* after an earlier load() had succeeded
C24_Witness ==
    /\ result.op = "is_loaded" /\ result.value = FALSE /\ gen > 0


\* the step is a call of one of the operations ops (the store is left alone
\* and the caller is handed the result of such a call)
Calls(ops) == changes' = changes /\ result'.op \in ops

\* no snapshot is cached although one has been built: a reload() has failed
Dropped == ~cache.loaded /\ gen > 0

\* C28: reload() on a loaded loader with a required document missing raises
\* KBLoadError and leaves no snapshot cached; from then on is_loaded() is
\* false, get_kb_version() reports not_loaded, and every lookup made while a
\* required document is missing probes the documents again and raises
\* KBLoadError.
C28_FailedReloadUnloads ==
    /\ [][(Calls({"reload"}) /\ cache.loaded /\ MissingRequired /= <<>>) =>
             (/\ result'.exc = "KBLoadError"
              /\ result'.missing_files = MissingRequired
              /\ ~cache'.loaded)]_vars
    /\ [][(Calls({"is_loaded"}) /\ Dropped) => (result'.value = FALSE /\ ~cache'.loaded)]_vars
    /\ [][(Calls({"get_kb_version"}) /\ Dropped) =>
             (/\ result'.exc = "" /\ result'.value.kb_version = "not_loaded"
              /\ ~cache'.loaded)]_vars
    /\ [][(Calls(LoadingOps \ {"load", "reload"}) /\ Dropped /\ MissingRequired /= <<>>) =>
             (/\ result'.exc = "KBLoadError" /\ result'.probes > 0
              /\ ~cache'.loaded)]_vars

\* a lookup raised KBLoadError on a loader whose snapshot a failed reload()
\* had dropped
C28_Witness ==
    /\ result.op \in {"get_language_ceiling", "get_bloom_distribution",
                      "get_allowed_interactions", "get_full_content"}
    /\ result.exc = "KBLoadError" /\ result.probes > 0
    /\ Dropped /\ MissingRequired /= <<>>


-----------------------------------------------------------------------------
(* Properties of the tables the checks are run with *)

\* the number of entries of levels that are k
CountIn(levels, k) == Cardinality({i \in DOMAIN levels : levels[i] = k})

\* a lesson whose quiz has one well-formed item at each of the given levels
QuizLesson(levels) == Dict(<<KV("quick_quiz", QuizOf(levels))>>)

\* C29: for the grade code of the call, one of K, 1..5, there is a quiz of ten
\* items, with as many items at each level as the grade requires, items 1-3 at
\* L1/L2 and items 8-10 at L3..L5, on which the distribution check is passed.
C29_DistributionSatisfiable ==
    (lastOp = "validate" /\ Args(input).grade \in Grades) =>
        LET required == BLOOM_DISTRIBUTION[Args(input).grade] IN
        \E last \in [1..3 -> 3..5] :
            /\ \A k \in 3..5 : CountIn(last, k) <= required[k]
            /\ \E first \in [1..3 -> 1..2] :
                  /\ \A k \in 1..2 : CountIn(first, k) <= required[k]
                  /\ \E mid \in [1..4 -> 1..5] :
                        LET levels == first \o mid \o last IN
                        /\ \A k \in 1..5 : CountIn(levels, k) = required[k]
                        /\ StatusOn("blooms_distribution", QuizLesson(levels)) = "passed"


\* C30: the values a grade lookup of the loader returns for a grade code (and
\* the orchestrator writes into the prompt) are those of the grade whose
\* constraints validate enforces for that code: the code itself when it is one
\* of K, 1..5, and the same fallback grade when it is not.
C30_SameGradeAsRuleEngine ==
    (/\ result.op \in GradeLookups /\ result.exc = "" /\ cache.loaded
     /\ GradeOrDefault3(result.arg) \in DOMAIN TableOf(result.op))
    => result.value = TableOf(result.op)[GradeOrDefault3(result.arg)]


-----------------------------------------------------------------------------
(* Properties of the report handed to the client *)

\* the positions of the checks of the report with the given status
ChecksWith(status) == {i \in 1..Len(report.checks) : report.checks[i].status = status}

\* C26: the schema report made of an internal report has the same passed flag
\* and overall_score, one check per internal check in the same order with the
\* same name and status except that warning becomes passed, one warnings entry
\* per internal warning check, and one errors entry per failed check, so that
\* errors is empty exactly when passed is true.
C26_ConversionKeepsVerdict ==
    LET schema == _convert_internal_report_to_schema(report, Args(input).grade) IN
    /\ schema.passed = report.passed
    /\ schema.overall_score = report.overall_score
    /\ Len(schema.checks) = Len(report.checks)
    /\ \A i \in 1..Len(report.checks) :
          /\ schema.checks[i].name = report.checks[i].name
          /\ schema.checks[i].status =
                (IF i \in ChecksWith("warning") THEN "passed" ELSE report.checks[i].status)
    /\ Len(schema.warnings) = Cardinality(ChecksWith("warning"))
    /\ \A i \in ChecksWith("warning") :
          \E j \in 1..Len(schema.warnings) :
              /\ schema.warnings[j].type = report.checks[i].name
              /\ j = Cardinality({k \in ChecksWith("warning") : k <= i})
    /\ Len(schema.errors) = Cardinality(ChecksWith("failed"))
    /\ (schema.errors = <<>>) <=> schema.passed

\* a returned report with passed, warning and failed checks
C26_Witness ==
    /\ lastOp = "validate"
    /\ ChecksWith("warning") # {} /\ ChecksWith("failed") # {} /\ ChecksWith("passed") # {}


-----------------------------------------------------------------------------
(* Properties of the generation pipeline *)

\* the rows of the database as the running request sees them
Requests == db.requests \cup session.requests

Lessons == db.lessons \cup session.lessons

\* the generated lesson fails a hard check of the validator
HardCheckFailed(call) ==
    LET res == validate(Args(call)) IN
    /\ ~res.raised
    /\ \E i \in 1..Len(res.report.checks) : res.report.checks[i].status = "failed"

\* C25: a DOCX is stored and a request is completed only for a lesson whose
\* validation report passed; a run whose lesson failed a hard check ends with
\* status failed and HTTP 422 and stores no DOCX for the request; a later
\* download of a request answered with 422 returns 404.
C25_OnlyValidatedContentDelivered ==
    /\ \A l \in Lessons :
          l.docx # "" => /\ l.validation_report.passed
                         /\ ~HardCheckFailed(l.lesson_metadata)
    /\ \A r \in Requests :
          r.status = "completed" =>
              \E l \in Lessons : /\ l.request_id = r.id /\ l.docx # ""
                                 /\ l.validation_report.passed
    /\ (apc \in {"raised", "returned"} /\ lesson_dict # NoLesson
          /\ HardCheckFailed(lesson_dict)) =>
              /\ response = Response("generate", 422, request_id, "failed", "")
              /\ \A r \in session.requests : r.status = "failed"
              /\ \A l \in Lessons : l.request_id = request_id => l.docx = ""
    /\ \A i \in 1..Len(delivered) :
          delivered[i].code = 422 =>
              /\ delivered[i].status = "failed"
              /\ \A l \in Lessons : l.request_id = delivered[i].request_id => l.docx = ""
              /\ (response.op = "download" /\ response.request_id = delivered[i].request_id)
                    => response.code = 404

\* one request was completed with its DOCX, another was answered with 422 and
\* its download was then answered with 404
C25_Witness ==
    /\ \E r \in db.requests : r.status = "completed"
    /\ \E l \in db.lessons : l.docx # ""
    /\ \E i \in 1..Len(delivered) :
          /\ delivered[i].code = 422
          /\ response.op = "download" /\ response.request_id = delivered[i].request_id
          /\ response.code = 404

\* C27: after a run answered with 422 the database holds the request with
\* status failed, the failed lesson with its report and without a DOCX, and
\* the validation_failed audit entry; no request is left in status processing.
C27_FailedRunPersisted ==
    /\ \A i \in 1..Len(delivered) :
          delivered[i].code = 422 =>
              /\ RequestRow(delivered[i].request_id, "failed") \in db.requests
              /\ \E l \in db.lessons :
                    /\ l.request_id = delivered[i].request_id /\ l.docx = ""
                    /\ ~l.validation_report.passed
              /\ AuditRow(delivered[i].request_id, "validation_failed") \in db.audit
    /\ apc = "idle" => \A r \in db.requests : r.status # "processing"

=============================================================================
